---- MODULE Spec2Model ----
(***************************************************************************)
(* Daily rollup pipeline of SIS-Share: scripts/build-daily-from-raw.mjs    *)
(* (key normaliser, registry resolver, the three source aggregators, the   *)
(* range driver) and src/lib/daily-rollups.mjs (document builder, atomic   *)
(* write).                                                                 *)
(*                                                                         *)
(* JavaScript strings are sequences of one-character strings, so that      *)
(* trim / toLowerCase / replace / split / endsWith are computed and not    *)
(* assumed.  JavaScript values are tagged records (JsUndef, JsNull,        *)
(* JsStr, JsNum, JsNaN, JsInf, JsObj).  JavaScript objects used as maps    *)
(* are TLA+ functions; the insertion order of their keys is abstracted.    *)
(***************************************************************************)
EXTENDS Integers, Sequences, FiniteSets, TLC

----------------------------------------------------------------------------
(* JavaScript values *)

JsUndef == [t |-> "undef"]
JsNull == [t |-> "null"]
JsNaN == [t |-> "nan"]
JsInf == [t |-> "inf"]
JsStr(s) == [t |-> "str", s |-> s]
JsNum(n) == [t |-> "num", n |-> n]
JsObj(f) == [t |-> "obj", f |-> f]

IsNumber(v) == v.t \in {"num", "nan", "inf"}

\* ToBoolean: undefined, null, "", 0 and NaN are falsy.
Truthy(v) ==
  CASE v.t = "undef" -> FALSE
    [] v.t = "null" -> FALSE
    [] v.t = "nan" -> FALSE
    [] v.t = "str" -> v.s # <<>>
    [] v.t = "num" -> v.n # 0
    [] OTHER -> TRUE

\* a || b
Or(a, b) == IF Truthy(a) THEN a ELSE b

\* a ?? b
Nullish(v) == v.t \in {"undef", "null"}
Coalesce(a, b) == IF Nullish(a) THEN b ELSE a

\* record.field (undefined when the property is absent)
Get(obj, field) ==
  IF obj.t = "obj" /\ field \in DOMAIN obj.f THEN obj.f[field] ELSE JsUndef

\* a + b on numbers
JsAdd(a, b) ==
  IF a.t = "nan" \/ b.t = "nan" THEN JsNaN
  ELSE IF a.t = "inf" \/ b.t = "inf" THEN JsInf
  ELSE JsNum(a.n + b.n)

\* a >= 0
JsNonNegative(a) == (a.t = "inf") \/ (a.t = "num" /\ a.n >= 0)

\* a > 0
JsPositive(a) == (a.t = "inf") \/ (a.t = "num" /\ a.n > 0)

----------------------------------------------------------------------------
(* Strings *)

Digits == <<"0", "1", "2", "3", "4", "5", "6", "7", "8", "9">>
DigitSet == {Digits[i] : i \in 1..10}
LowerSet == {"a", "b", "c", "d", "e", "f", "g", "h", "i", "j", "k", "l", "m",
             "n", "o", "p", "q", "r", "s", "t", "u", "v", "w", "x", "y", "z"}
UpperToLower ==
  [c \in {"A", "B", "C", "D", "E", "F", "G", "H", "I", "J", "K", "L", "M",
          "N", "O", "P", "Q", "R", "S", "T", "U", "V", "W", "X", "Y", "Z"} |->
     CASE c = "A" -> "a" [] c = "B" -> "b" [] c = "C" -> "c" [] c = "D" -> "d"
       [] c = "E" -> "e" [] c = "F" -> "f" [] c = "G" -> "g" [] c = "H" -> "h"
       [] c = "I" -> "i" [] c = "J" -> "j" [] c = "K" -> "k" [] c = "L" -> "l"
       [] c = "M" -> "m" [] c = "N" -> "n" [] c = "O" -> "o" [] c = "P" -> "p"
       [] c = "Q" -> "q" [] c = "R" -> "r" [] c = "S" -> "s" [] c = "T" -> "t"
       [] c = "U" -> "u" [] c = "V" -> "v" [] c = "W" -> "w" [] c = "X" -> "x"
       [] c = "Y" -> "y" [] OTHER -> "z"]
WhiteSet == {" ", "\t", "\n"}

LowerChar(c) == IF c \in DOMAIN UpperToLower THEN UpperToLower[c] ELSE c
UpperChar(c) ==
  IF \E u \in DOMAIN UpperToLower : UpperToLower[u] = c
  THEN CHOOSE u \in DOMAIN UpperToLower : UpperToLower[u] = c
  ELSE c

toLowerCase(s) == [i \in 1..Len(s) |-> LowerChar(s[i])]
toUpperCase(s) == [i \in 1..Len(s) |-> UpperChar(s[i])]

RECURSIVE trimStart(_)
trimStart(s) ==
  IF s # <<>> /\ Head(s) \in WhiteSet THEN trimStart(Tail(s)) ELSE s

RECURSIVE trimEnd(_)
trimEnd(s) ==
  IF s # <<>> /\ s[Len(s)] \in WhiteSet
  THEN trimEnd(SubSeq(s, 1, Len(s) - 1))
  ELSE s

trim(s) == trimEnd(trimStart(s))

startsWith(s, p) == Len(s) >= Len(p) /\ SubSeq(s, 1, Len(p)) = p
endsWith(s, p) ==
  Len(s) >= Len(p) /\ SubSeq(s, Len(s) - Len(p) + 1, Len(s)) = p

\* s.includes(p)
includes(s, p) ==
  \E i \in 1..(Len(s) - Len(p) + 1) : SubSeq(s, i, i + Len(p) - 1) = p

\* s.replace(/[^a-z0-9]/g, "")
stripNonAlnum(s) == SelectSeq(s, LAMBDA c : c \in LowerSet \cup DigitSet)

\* s.replace(/[\s_]+/g, "-")
RECURSIVE hyphenate(_)
hyphenate(s) ==
  IF s = <<>> THEN <<>>
  ELSE IF Head(s) \in WhiteSet \cup {"_"}
       THEN IF Len(s) > 1 /\ s[2] \in WhiteSet \cup {"_"}
            THEN hyphenate(Tail(s))
            ELSE <<"-">> \o hyphenate(Tail(s))
       ELSE <<Head(s)>> \o hyphenate(Tail(s))

\* s.split(sep) for a one-character separator: a sequence of strings
RECURSIVE split(_, _)
split(s, sep) ==
  IF \E i \in 1..Len(s) : s[i] = sep
  THEN LET i == CHOOSE j \in 1..Len(s) :
                  s[j] = sep /\ \A k \in 1..(j - 1) : s[k] # sep
       IN <<SubSeq(s, 1, i - 1)>> \o split(SubSeq(s, i + 1, Len(s)), sep)
  ELSE <<s>>

\* Number.prototype.toString for the non-negative integers of the model
RECURSIVE natToString(_)
natToString(n) ==
  IF n < 10 THEN <<Digits[n + 1]>>
  ELSE natToString(n \div 10) \o <<Digits[(n % 10) + 1]>>

S_NaN == <<"N", "a", "N">>
S_Infinity == <<"I", "n", "f", "i", "n", "i", "t", "y">>

\* value.toString() of a string or a number (callers guard undefined/null)
toString(v) ==
  CASE v.t = "str" -> v.s
    [] v.t = "num" -> IF v.n < 0 THEN <<"-">> \o natToString(-v.n)
                      ELSE natToString(v.n)
    [] v.t = "nan" -> S_NaN
    [] v.t = "inf" -> S_Infinity
    [] OTHER -> <<"[", "o", "b", "j", "e", "c", "t", " ", "O", "b", "j", "e",
                  "c", "t", "]">>

DigitValue(c) == (CHOOSE i \in 1..10 : Digits[i] = c) - 1

RECURSIVE digitsToNat(_)
digitsToNat(s) ==
  IF s = <<>> THEN 0
  ELSE 10 * digitsToNat(SubSeq(s, 1, Len(s) - 1)) + DigitValue(s[Len(s)])

\* Number(v): undefined -> NaN, null -> 0, "" -> 0, decimal digits -> their
\* value, "Infinity" -> Infinity, any other string -> NaN.
Number(v) ==
  CASE v.t = "undef" -> JsNaN
    [] v.t = "null" -> JsNum(0)
    [] v.t = "str" ->
         LET s == trim(v.s) IN
         IF s = <<>> THEN JsNum(0)
         ELSE IF \A i \in 1..Len(s) : s[i] \in DigitSet
              THEN JsNum(digitsToNat(s))
         ELSE IF s = S_Infinity THEN JsInf
         ELSE JsNaN
    [] v.t = "obj" -> JsNaN
    [] OTHER -> v

----------------------------------------------------------------------------
(* String constants of the program *)

CARDUPDATR_SUFFIX ==
  <<".", "c", "a", "r", "d", "u", "p", "d", "a", "t", "r", ".", "a", "p", "p">>
UNKNOWN_INSTANCE == <<"u", "n", "k", "n", "o", "w", "n">>
UNKNOWN_FI == <<"u", "n", "k", "n", "o", "w", "n", "_", "f", "i">>
S_UNKNOWN == <<"U", "N", "K", "N", "O", "W", "N">>
S_SUCCESSFUL == <<"S", "U", "C", "C", "E", "S", "S", "F", "U", "L">>
S_BILLABLE == <<"B", "I", "L", "L", "A", "B", "L", "E">>
S_default == <<"d", "e", "f", "a", "u", "l", "t">>
S_advancial_prod ==
  <<"a", "d", "v", "a", "n", "c", "i", "a", "l", "-", "p", "r", "o", "d">>
S_advancialprod ==
  <<"a", "d", "v", "a", "n", "c", "i", "a", "l", "p", "r", "o", "d">>
S_digitalonboarding ==
  <<"d", "i", "g", "i", "t", "a", "l", "o", "n", "b", "o", "a", "r", "d", "i",
    "n", "g">>
S_digital_onboarding ==
  <<"d", "i", "g", "i", "t", "a", "l", "-", "o", "n", "b", "o", "a", "r", "d",
    "i", "n", "g">>
S_customer_dev ==
  <<"c", "u", "s", "t", "o", "m", "e", "r", "-", "d", "e", "v">>
P_select_merchants ==
  <<"/", "s", "e", "l", "e", "c", "t", "-", "m", "e", "r", "c", "h", "a", "n",
    "t", "s">>
P_user_data_collection ==
  <<"/", "u", "s", "e", "r", "-", "d", "a", "t", "a", "-", "c", "o", "l", "l",
    "e", "c", "t", "i", "o", "n">>
P_credential_entry ==
  <<"/", "c", "r", "e", "d", "e", "n", "t", "i", "a", "l", "-", "e", "n", "t",
    "r", "y">>
SEP == <<"_", "_">>

\* JavaScript Map / plain-object helpers
EmptyMap == <<>>
Has(m, k) == k \in DOMAIN m
Put(m, k, v) == [x \in (DOMAIN m) \cup {k} |-> IF x = k THEN v ELSE m[x]]

----------------------------------------------------------------------------
(* Key normaliser *)

\* INSTANCE_DISPLAY_OVERRIDES with an entry that renames the instance
INSTANCE_DISPLAY_OVERRIDES_Renaming ==
  Put(EmptyMap, S_digitalonboarding, <<"o", "n", "b", "o", "a", "r", "d">>)

INSTANCE_DISPLAY_OVERRIDES ==
  [k \in {S_digitalonboarding} |-> S_digital_onboarding]

normalizeFiKey(value) ==
  IF ~Truthy(value) THEN <<>> ELSE toLowerCase(trim(toString(value)))

formatInstanceDisplay(value) ==
  IF ~Truthy(value) THEN UNKNOWN_INSTANCE
  ELSE LET base == hyphenate(toLowerCase(trim(toString(value))))
           display == IF base = <<>> THEN UNKNOWN_INSTANCE ELSE base
       IN IF Has(INSTANCE_DISPLAY_OVERRIDES, display)
          THEN INSTANCE_DISPLAY_OVERRIDES[display]
          ELSE display

\* canonicalInstance replacing the characters it removes by a hyphen
canonicalInstanceHyphenated(value) ==
  IF ~Truthy(value) THEN UNKNOWN_INSTANCE
  ELSE LET normalized == hyphenate(toLowerCase(trim(toString(value))))
       IN IF normalized = <<>> THEN UNKNOWN_INSTANCE ELSE normalized

canonicalInstance(value) ==
  IF ~Truthy(value) THEN UNKNOWN_INSTANCE
  ELSE LET normalized == stripNonAlnum(toLowerCase(trim(toString(value))))
       IN IF normalized = <<>> THEN UNKNOWN_INSTANCE ELSE normalized

adjustInstanceForFi(fiLookupKey, instanceValue) ==
  LET fiNorm == normalizeFiKey(fiLookupKey)
      instanceNorm == canonicalInstance(instanceValue)
  IN IF fiNorm = S_advancial_prod /\ instanceNorm = S_default
     THEN JsStr(S_advancial_prod)
     ELSE instanceValue

\* adjustFiLookupForInstance comparing the canonical instance with the
\* hyphenated name
adjustFiLookupForInstanceHyphen(fiLookupKey, instanceValue) ==
  LET fiNorm == normalizeFiKey(fiLookupKey)
      instanceNorm == canonicalInstance(instanceValue)
  IN IF fiNorm = S_default /\ instanceNorm = S_advancial_prod
     THEN JsStr(S_advancial_prod)
     ELSE fiLookupKey

adjustFiLookupForInstance(fiLookupKey, instanceValue) ==
  LET fiNorm == normalizeFiKey(fiLookupKey)
      instanceNorm == canonicalInstance(instanceValue)
  IN IF fiNorm = S_default /\ instanceNorm = S_advancialprod
     THEN JsStr(S_advancial_prod)
     ELSE fiLookupKey

makeFiInstanceKey(fiKey, instance) ==
  LET fi == toLowerCase(toString(Or(fiKey, JsStr(<<>>))))
      inst == canonicalInstance(instance)
  IN fi \o SEP \o inst

\* src/config/testInstances.mjs
RAW_TEST_INSTANCE_NAMES == {S_customer_dev}
testCanonicalInstance(value) ==
  IF ~Truthy(value) THEN <<>>
  ELSE stripNonAlnum(toLowerCase(trim(toString(value))))
TEST_INSTANCE_SET ==
  {testCanonicalInstance(JsStr(name)) : name \in RAW_TEST_INSTANCE_NAMES}
\* isTestInstanceName looking the value up among the raw names
isTestInstanceNameRaw(value) ==
  IF ~Truthy(value) THEN FALSE
  ELSE toString(value) \in RAW_TEST_INSTANCE_NAMES
isTestInstanceName(value) ==
  IF ~Truthy(value) THEN FALSE
  ELSE testCanonicalInstance(value) \in TEST_INSTANCE_SET

----------------------------------------------------------------------------
(* Registry resolver.  A registry is the sequence Object.values(fiRegistry). *)

RECURSIVE buildRegistryIndexFrom(_, _)
buildRegistryIndexFrom(entries, index) ==
  IF entries = <<>> THEN index
  ELSE LET entry == Head(entries) IN
       IF ~Truthy(entry) \/ entry.t # "obj"
       THEN buildRegistryIndexFrom(Tail(entries), index)
       ELSE LET lookup == toLowerCase(toString(
                            Or(Or(Get(entry, "fi_lookup_key"),
                                  Get(entry, "fi_name")), JsStr(<<>>))))
                name == toLowerCase(toString(
                            Or(Get(entry, "fi_name"), JsStr(<<>>))))
                byLookup == IF lookup # <<>>
                            THEN Put(index.byLookup, lookup, lookup)
                            ELSE index.byLookup
                byName == IF name # <<>> /\ lookup # <<>>
                          THEN Put(index.byName, name, lookup)
                          ELSE index.byName
            IN buildRegistryIndexFrom(Tail(entries),
                                      [byLookup |-> byLookup, byName |-> byName])

buildRegistryIndex(fiRegistry) ==
  buildRegistryIndexFrom(fiRegistry, [byLookup |-> EmptyMap, byName |-> EmptyMap])

\* returns a JsStr, or JsNull
resolveFiKey(preferred, fallbackName, registryIndex) ==
  LET normalizedPreferred ==
        IF Truthy(preferred) THEN JsStr(toLowerCase(toString(preferred)))
        ELSE JsNull
      normalizedName ==
        IF Truthy(fallbackName) THEN JsStr(toLowerCase(toString(fallbackName)))
        ELSE JsNull
  IN IF Truthy(normalizedPreferred)
     THEN IF Has(registryIndex.byLookup, normalizedPreferred.s)
          THEN JsStr(registryIndex.byLookup[normalizedPreferred.s])
          ELSE normalizedPreferred
     ELSE IF Truthy(normalizedName) /\ Has(registryIndex.byName, normalizedName.s)
          THEN JsStr(registryIndex.byName[normalizedName.s])
          ELSE Or(normalizedName, JsNull)

\* The parsed host: JsNull, or [t |-> "host", fi_key, instance], or
\* [t |-> "throw"] when host is a truthy non-string (host.endsWith is then
\* not a function and the call raises a TypeError).
HostThrow == [t |-> "throw"]
HostOf(fi_key, instance) == [t |-> "host", fi_key |-> fi_key, instance |-> instance]

resolveFiFromHost(host) ==
  IF host.t # "str" THEN HostThrow
  ELSE IF ~endsWith(host.s, CARDUPDATR_SUFFIX) THEN JsNull
  ELSE LET prefix == SubSeq(host.s, 1, Len(host.s) - Len(CARDUPDATR_SUFFIX)) IN
       IF prefix = <<>> THEN JsNull
       ELSE LET parts == split(prefix, ".") IN
            IF Len(parts) = 1 THEN HostOf(parts[1], parts[1])
            ELSE LET fi_key == parts[1]
                     instance == IF parts[2] # <<>> THEN parts[2] ELSE parts[1]
                 IN IF fi_key = S_default /\ instance = S_advancial_prod
                    THEN HostOf(S_advancial_prod, instance)
                    ELSE HostOf(fi_key, instance)

\* parsedHost?.fi_key and parsedHost?.instance
HostFiKey(parsedHost) ==
  IF parsedHost.t = "host" THEN JsStr(parsedHost.fi_key) ELSE JsUndef
HostInstance(parsedHost) ==
  IF parsedHost.t = "host" THEN JsStr(parsedHost.instance) ELSE JsUndef

----------------------------------------------------------------------------
(* Source aggregators.  A raw payload is JsNull (readRaw found no file) or  *)
(* a JsObj; an array is [t |-> "arr", a |-> <<...>>].  An aggregator        *)
(* returns [threw, byFi, byInstance]; threw is TRUE when the JavaScript     *)
(* call raises instead of returning.                                        *)

JsArr(a) == [t |-> "arr", a |-> a]
ArrayOf(v) == IF v.t = "arr" THEN v.a ELSE <<>>
IsObject(v) == v.t \in {"obj", "arr"}

\* fiKeys is not part of the JavaScript return value: it records, record by
\* record, the loop's local fiKey (JsUndef for a record the loop skips at
\* its first line), so that properties of key resolution can be stated.
AggResult(byFi, byInstance, fiKeys) ==
  [threw |-> FALSE, byFi |-> byFi, byInstance |-> byInstance,
   fiKeys |-> fiKeys]
AggThrow ==
  [threw |-> TRUE, byFi |-> EmptyMap, byInstance |-> EmptyMap, fiKeys |-> <<>>]
AggEmpty == AggResult(EmptyMap, EmptyMap, <<>>)

\* the sum of g[x] over x \in S, in JavaScript arithmetic
RECURSIVE JsSum(_, _)
JsSum(S, g) ==
  IF S = {} THEN JsNum(0)
  ELSE LET x == CHOOSE y \in S : TRUE IN JsAdd(g[x], JsSum(S \ {x}, g))

\* (v || 0) for a counter
OrZero(v) == Or(v, JsNum(0))

\* the state of a loop over the records: the map built so far, or a throw
Acc(m, fiKey) == [threw |-> FALSE, m |-> m, fiKey |-> fiKey]
AccThrow == [threw |-> TRUE, m |-> EmptyMap, fiKey |-> JsUndef]
Loop(m, fiKeys) == [threw |-> FALSE, m |-> m, fiKeys |-> fiKeys]
LoopThrow == [threw |-> TRUE, m |-> EmptyMap, fiKeys |-> <<>>]

\* one iteration of the loop over raw.rows.  Each local operator is the rest
\* of the iteration from the point where the values it takes are known; the
\* last part of the iteration comes first.
\* addPageCount counting a page of no funnel step as a credential entry
addPageCountElse(bucket, pagePath, count) ==
  IF startsWith(pagePath, P_select_merchants)
  THEN [bucket EXCEPT !.select_merchants = JsAdd(@, count)]
  ELSE IF startsWith(pagePath, P_user_data_collection)
  THEN [bucket EXCEPT !.user_data_collection = JsAdd(@, count)]
  ELSE [bucket EXCEPT !.credential_entry = JsAdd(@, count)]

\* the bucket after the row's count is added to the counter of its page
addPageCount(bucket, pagePath, count) ==
  IF startsWith(pagePath, P_select_merchants)
  THEN [bucket EXCEPT !.select_merchants = JsAdd(@, count)]
  ELSE IF startsWith(pagePath, P_user_data_collection)
  THEN [bucket EXCEPT !.user_data_collection = JsAdd(@, count)]
  ELSE IF startsWith(pagePath, P_credential_entry)
  THEN [bucket EXCEPT !.credential_entry = JsAdd(@, count)]
  ELSE bucket

gaRowStep(originalRow, byInstance, registryIndex) ==
  LET withCount(fiKey, fiInstanceKey, flagged, count, pagePath) ==
        Acc(Put(byInstance, fiInstanceKey,
                addPageCount(flagged, pagePath, count)), fiKey)
      withKey(fiKey, instanceDisplay, normalizedInstance, isTest,
              fiInstanceKey) ==
        LET created ==
              IF Has(byInstance, fiInstanceKey) THEN byInstance[fiInstanceKey]
              ELSE [fi_lookup_key |-> fiKey.s,
                    instance |-> instanceDisplay,
                    instance_norm |-> normalizedInstance,
                    is_test |-> isTest,
                    select_merchants |-> JsNum(0),
                    user_data_collection |-> JsNum(0),
                    credential_entry |-> JsNum(0)]
        IN withCount(fiKey, fiInstanceKey,
                     [created EXCEPT !.is_test = @ \/ isTest],
                     Number(Coalesce(Coalesce(Coalesce(Coalesce(
                       Get(originalRow, "active_users"),
                       Get(originalRow, "activeUsers")),
                       Get(originalRow, "views")),
                       Get(originalRow, "screenPageViews")),
                       JsNum(0))),
                     toString(Or(Or(Or(Get(originalRow, "page"),
                                       Get(originalRow, "pagePath")),
                                    Get(originalRow, "pathname")),
                                 JsStr(<<>>))))
      withInstance(fiKey, instanceDisplay, normalizedInstance) ==
        withKey(fiKey, instanceDisplay, normalizedInstance,
                isTestInstanceName(JsStr(normalizedInstance)),
                makeFiInstanceKey(fiKey, JsStr(normalizedInstance)))
      withDisplay(fiKey, instanceDisplay) ==
        withInstance(fiKey, instanceDisplay,
                     canonicalInstance(JsStr(instanceDisplay)))
      withFiKey(parsedHost, fiKey) ==
        IF ~Truthy(fiKey) THEN Acc(byInstance, fiKey)
        ELSE LET instanceRaw ==
                   Or(Or(Or(Get(originalRow, "instance"),
                            Get(originalRow, "host_instance")),
                         HostInstance(parsedHost)), JsStr(UNKNOWN_INSTANCE))
                 adjustedInstance == adjustInstanceForFi(fiKey, instanceRaw)
             IN withDisplay(fiKey, formatInstanceDisplay(adjustedInstance))
      withHost(parsedHost) ==
        IF parsedHost.t = "throw" THEN AccThrow
        ELSE LET preferredKey ==
                   Or(Or(Or(Get(originalRow, "fi_key"),
                            Get(originalRow, "fi_lookup_key")),
                         HostFiKey(parsedHost)), JsNull)
                 fallbackName ==
                   Or(Or(Get(originalRow, "fi_name"), HostFiKey(parsedHost)),
                      JsNull)
             IN withFiKey(parsedHost,
                          resolveFiKey(preferredKey, fallbackName,
                                       registryIndex))
  IN IF ~Truthy(originalRow) \/ ~IsObject(originalRow)
     THEN Acc(byInstance, JsUndef)
     ELSE LET host == Or(Or(Get(originalRow, "host"),
                            Get(originalRow, "hostname")), JsStr(<<>>))
          IN withHost(resolveFiFromHost(host))

RECURSIVE gaRowsLoop(_, _, _, _)
gaRowsLoop(rows, byInstance, fiKeys, registryIndex) ==
  LET after(next) ==
        IF next.threw THEN LoopThrow
        ELSE gaRowsLoop(Tail(rows), next.m, Append(fiKeys, next.fiKey),
                        registryIndex)
  IN IF rows = <<>> THEN Loop(byInstance, fiKeys)
     ELSE after(gaRowStep(Head(rows), byInstance, registryIndex))

\* the fold of byInstance into byFi (the second loop of aggregateGaFromRaw);
\* instances is the set of display strings (its locale order is abstracted)
gaByFiFold(byInstance) ==
  LET fiKeys == {byInstance[k].fi_lookup_key : k \in DOMAIN byInstance}
      of(fiKey) == {k \in DOMAIN byInstance :
                      byInstance[k].fi_lookup_key = fiKey}
  IN [fiKey \in fiKeys |->
        [select_merchants |->
           JsSum(of(fiKey), [k \in of(fiKey) |-> byInstance[k].select_merchants]),
         user_data_collection |->
           JsSum(of(fiKey),
                 [k \in of(fiKey) |-> byInstance[k].user_data_collection]),
         credential_entry |->
           JsSum(of(fiKey), [k \in of(fiKey) |-> byInstance[k].credential_entry]),
         instances |-> {byInstance[k].instance : k \in of(fiKey)}]]

\* aggregateGaFromRaw without the test of raw.error
aggregateGaIgnoringError(day, raw, registryIndex) ==
  LET result(loop) ==
        IF loop.threw THEN AggThrow
        ELSE AggResult(gaByFiFold(loop.m), loop.m, loop.fiKeys)
  IN IF ~Truthy(raw) THEN AggEmpty
     ELSE LET rows == ArrayOf(Get(raw, "rows"))
          IN result(gaRowsLoop(rows, EmptyMap, <<>>, registryIndex))

aggregateGaFromRaw(day, raw, registryIndex) ==
  LET result(loop) ==
        IF loop.threw THEN AggThrow
        ELSE AggResult(gaByFiFold(loop.m), loop.m, loop.fiKeys)
  IN IF ~Truthy(raw) \/ Truthy(Get(raw, "error")) THEN AggEmpty
     ELSE LET rows == ArrayOf(Get(raw, "rows"))
          IN result(gaRowsLoop(rows, EmptyMap, <<>>, registryIndex))

\* safeSessionFiKey falling back to the name of the unknown instance
safeSessionFiKeyUnknown(session, registryIndex) ==
  LET lookup == Coalesce(Coalesce(
                  Get(session, "financial_institution_lookup_key"),
                  Get(session, "fi_lookup_key")), JsNull)
      name == Or(Or(Or(Or(Get(session, "fi_name"),
                          Get(session, "financial_institution")),
                       Get(session, "financial_institution_name")),
                    Get(session, "institution")), JsNull)
  IN Or(resolveFiKey(lookup, name, registryIndex), JsStr(UNKNOWN_INSTANCE))

safeSessionFiKey(session, registryIndex) ==
  LET lookup == Coalesce(Coalesce(
                  Get(session, "financial_institution_lookup_key"),
                  Get(session, "fi_lookup_key")), JsNull)
      name == Or(Or(Or(Or(Get(session, "fi_name"),
                          Get(session, "financial_institution")),
                       Get(session, "financial_institution_name")),
                    Get(session, "institution")), JsNull)
  IN Or(resolveFiKey(lookup, name, registryIndex), JsStr(UNKNOWN_FI))

\* Number(x) || 0
NumberOrZero(v) == Or(Number(v), JsNum(0))

\* one iteration of the loop over raw.sessions, written as gaRowStep is
sessionStep(session, byInstance, registryIndex) ==
  LET withJobs(fiKey, key, created, isTest, totalJobs, successfulJobs) ==
        LET bucket ==
              [created EXCEPT
                 !.is_test = @ \/ isTest,
                 !.total_sessions = JsAdd(@, JsNum(1)),
                 !.sessions_with_jobs =
                    IF JsPositive(totalJobs) THEN JsAdd(@, JsNum(1)) ELSE @,
                 !.sessions_with_success =
                    IF JsPositive(successfulJobs) THEN JsAdd(@, JsNum(1))
                    ELSE @,
                 !.total_jobs_sum = JsAdd(@, totalJobs),
                 !.successful_jobs_sum = JsAdd(@, successfulJobs)]
        IN Acc(Put(byInstance, key, bucket), fiKey)
      withKey(fiKey, fiLookup, normalizedFi, instanceDisplay,
              normalizedInstance, isTest, key) ==
        LET created ==
              IF Has(byInstance, key) THEN byInstance[key]
              ELSE [fi_lookup_key |-> fiLookup,
                    fi_lookup_norm |-> normalizedFi,
                    instance |-> instanceDisplay,
                    instance_norm |-> normalizedInstance,
                    is_test |-> isTest,
                    total_sessions |-> JsNum(0),
                    sessions_with_jobs |-> JsNum(0),
                    sessions_with_success |-> JsNum(0),
                    total_jobs_sum |-> JsNum(0),
                    successful_jobs_sum |-> JsNum(0)]
        IN withJobs(fiKey, key, created, isTest,
                    NumberOrZero(Get(session, "total_jobs")),
                    NumberOrZero(Get(session, "successful_jobs")))
      withNormalized(fiKey, fiLookup, normalizedFi, instanceDisplay,
                     normalizedInstance) ==
        withKey(fiKey, fiLookup, normalizedFi, instanceDisplay,
                normalizedInstance,
                isTestInstanceName(JsStr(normalizedInstance)),
                makeFiInstanceKey(JsStr(normalizedFi),
                                  JsStr(normalizedInstance)))
      withLookup(fiKey, fiLookup, instanceDisplay) ==
        withNormalized(fiKey, fiLookup, normalizeFiKey(JsStr(fiLookup)),
                       instanceDisplay,
                       canonicalInstance(JsStr(instanceDisplay)))
      withInstance(fiKey, instanceValue) ==
        LET adjustedFiKey == adjustFiLookupForInstance(fiKey, instanceValue)
        IN withLookup(fiKey,
                      toString(Or(Or(adjustedFiKey, fiKey), JsStr(UNKNOWN_FI))),
                      formatInstanceDisplay(instanceValue))
      withFiKey(fiKey) ==
        LET instanceRaw ==
              Or(Or(Or(Or(Or(Get(session, "_instance"),
                             Get(session, "instance")),
                          Get(session, "instance_name")),
                       Get(session, "org_name")),
                    Get(session, "instance_slug")),
                 JsStr(UNKNOWN_INSTANCE))
        IN withInstance(fiKey, adjustInstanceForFi(fiKey, instanceRaw))
  IN IF ~Truthy(session) \/ ~IsObject(session) THEN Acc(byInstance, JsUndef)
     ELSE withFiKey(safeSessionFiKey(session, registryIndex))

RECURSIVE sessionsLoop(_, _, _, _)
sessionsLoop(sessions, byInstance, fiKeys, registryIndex) ==
  LET after(next) ==
        sessionsLoop(Tail(sessions), next.m, Append(fiKeys, next.fiKey),
                     registryIndex)
  IN IF sessions = <<>> THEN Loop(byInstance, fiKeys)
     ELSE after(sessionStep(Head(sessions), byInstance, registryIndex))

\* entryFiKey without the fallback to fi_lookup_key
entryFiKeyNormOnly(entry) == entry.fi_lookup_norm

\* entry.fi_lookup_norm || entry.fi_lookup_key?.toString().toLowerCase()
entryFiKey(entry) ==
  IF entry.fi_lookup_norm # <<>> THEN entry.fi_lookup_norm
  ELSE toLowerCase(entry.fi_lookup_key)

\* sessionsByFiFold assigning (=) where the code accumulates (+=)
sessionsByFiFoldAssign(byInstance) ==
  LET kept == {k \in DOMAIN byInstance : entryFiKey(byInstance[k]) # <<>>}
      fiKeys == {entryFiKey(byInstance[k]) : k \in kept}
      lastOf(fiKey) ==
        byInstance[CHOOSE k \in kept : entryFiKey(byInstance[k]) = fiKey]
  IN [fiKey \in fiKeys |->
        [total_sessions |-> lastOf(fiKey).total_sessions,
         sessions_with_jobs |-> lastOf(fiKey).sessions_with_jobs,
         sessions_with_success |-> lastOf(fiKey).sessions_with_success,
         total_jobs_sum |-> OrZero(lastOf(fiKey).total_jobs_sum),
         successful_jobs_sum |-> OrZero(lastOf(fiKey).successful_jobs_sum)]]

\* the fold of byInstance into byFi (second loop of aggregateSessionsFromRaw)
sessionsByFiFold(byInstance) ==
  LET kept == {k \in DOMAIN byInstance : entryFiKey(byInstance[k]) # <<>>}
      fiKeys == {entryFiKey(byInstance[k]) : k \in kept}
      of(fiKey) == {k \in kept : entryFiKey(byInstance[k]) = fiKey}
  IN [fiKey \in fiKeys |->
        [total_sessions |->
           JsSum(of(fiKey), [k \in of(fiKey) |-> byInstance[k].total_sessions]),
         sessions_with_jobs |->
           JsSum(of(fiKey),
                 [k \in of(fiKey) |-> byInstance[k].sessions_with_jobs]),
         sessions_with_success |->
           JsSum(of(fiKey),
                 [k \in of(fiKey) |-> byInstance[k].sessions_with_success]),
         total_jobs_sum |->
           JsSum(of(fiKey),
                 [k \in of(fiKey) |-> OrZero(byInstance[k].total_jobs_sum)]),
         successful_jobs_sum |->
           JsSum(of(fiKey),
                 [k \in of(fiKey) |->
                    OrZero(byInstance[k].successful_jobs_sum)])]]

\* aggregateSessionsFromRaw without the test of raw.error
aggregateSessionsIgnoringError(raw, registryIndex) ==
  LET result(loop) ==
        AggResult(sessionsByFiFold(loop.m), loop.m, loop.fiKeys)
  IN IF ~Truthy(raw) THEN AggEmpty
     ELSE LET sessions == ArrayOf(Get(raw, "sessions"))
          IN result(sessionsLoop(sessions, EmptyMap, <<>>, registryIndex))

aggregateSessionsFromRaw(raw, registryIndex) ==
  LET result(loop) ==
        AggResult(sessionsByFiFold(loop.m), loop.m, loop.fiKeys)
  IN IF ~Truthy(raw) \/ Truthy(Get(raw, "error")) THEN AggEmpty
     ELSE LET sessions == ArrayOf(Get(raw, "sessions"))
          IN result(sessionsLoop(sessions, EmptyMap, <<>>, registryIndex))

\* safePlacementFiKey falling back to the name of the unknown instance
safePlacementFiKeyUnknown(placement, registryIndex) ==
  LET lookup == Or(Or(Get(placement, "fi_lookup_key"),
                      Get(placement, "financial_institution_lookup_key")),
                   JsNull)
      name == Or(Or(Or(Get(placement, "fi_name"),
                       Get(placement, "financial_institution")),
                    Get(placement, "issuer_name")), JsNull)
  IN Or(resolveFiKey(lookup, name, registryIndex), JsStr(UNKNOWN_INSTANCE))

safePlacementFiKey(placement, registryIndex) ==
  LET lookup == Or(Or(Get(placement, "fi_lookup_key"),
                      Get(placement, "financial_institution_lookup_key")),
                   JsNull)
      name == Or(Or(Or(Get(placement, "fi_name"),
                       Get(placement, "financial_institution")),
                    Get(placement, "issuer_name")), JsNull)
  IN Or(resolveFiKey(lookup, name, registryIndex), JsStr(UNKNOWN_FI))

isSuccessfulPlacement(placement) ==
  LET status == toUpperCase(toString(Or(Get(placement, "status"), JsStr(<<>>))))
      termination ==
        toUpperCase(toString(Or(Get(placement, "termination_type"),
                                JsStr(<<>>))))
  IN status = S_SUCCESSFUL \/ termination = S_BILLABLE

\* one iteration of the loop over raw.placements, written as gaRowStep is
placementStep(placement, byInstance, registryIndex) ==
  LET withTermination(baseFiKey, key, created, isTest, termination) ==
        LET bucket ==
              [created EXCEPT
                 !.is_test = @ \/ isTest,
                 !.total_placements = JsAdd(@, JsNum(1)),
                 !.successful_placements =
                    IF isSuccessfulPlacement(placement)
                    THEN JsAdd(@, JsNum(1))
                    ELSE @,
                 !.by_termination =
                    Put(@, termination,
                        JsAdd(IF Has(@, termination)
                              THEN OrZero(@[termination])
                              ELSE JsNum(0),
                              JsNum(1)))]
        IN Acc(Put(byInstance, key, bucket), baseFiKey)
      withKey(baseFiKey, fiKey, normalizedFi, instanceDisplay,
              normalizedInstance, isTest, key) ==
        LET created ==
              IF Has(byInstance, key) THEN byInstance[key]
              ELSE [fi_lookup_key |-> fiKey.s,
                    fi_lookup_norm |-> normalizedFi,
                    instance |-> instanceDisplay,
                    instance_norm |-> normalizedInstance,
                    is_test |-> isTest,
                    total_placements |-> JsNum(0),
                    successful_placements |-> JsNum(0),
                    by_termination |-> EmptyMap]
        IN withTermination(baseFiKey, key, created, isTest,
             toUpperCase(toString(Or(Or(Or(Get(placement, "termination_type"),
                                           Get(placement, "termination")),
                                        Get(placement, "status")),
                                     JsStr(S_UNKNOWN)))))
      withNormalized(baseFiKey, fiKey, normalizedFi, instanceDisplay,
                     normalizedInstance) ==
        withKey(baseFiKey, fiKey, normalizedFi, instanceDisplay,
                normalizedInstance,
                isTestInstanceName(JsStr(normalizedInstance)),
                makeFiInstanceKey(JsStr(normalizedFi),
                                  JsStr(normalizedInstance)))
      withFiKey(baseFiKey, fiKey, instanceDisplay) ==
        withNormalized(baseFiKey, fiKey, normalizeFiKey(fiKey),
                       instanceDisplay,
                       canonicalInstance(JsStr(instanceDisplay)))
      withInstance(baseFiKey, instanceValue) ==
        LET adjustedFiKey ==
              adjustFiLookupForInstance(baseFiKey, instanceValue)
        IN withFiKey(baseFiKey, Or(adjustedFiKey, baseFiKey),
                     formatInstanceDisplay(instanceValue))
      withBaseFiKey(baseFiKey) ==
        LET instanceRaw ==
              Or(Or(Or(Or(Get(placement, "_instance"),
                          Get(placement, "instance")),
                       Get(placement, "instance_name")),
                    Get(placement, "org_name")),
                 JsStr(UNKNOWN_INSTANCE))
        IN withInstance(baseFiKey, adjustInstanceForFi(baseFiKey, instanceRaw))
  IN IF ~Truthy(placement) \/ ~IsObject(placement)
     THEN Acc(byInstance, JsUndef)
     ELSE withBaseFiKey(
            JsStr(toString(safePlacementFiKey(placement, registryIndex))))

RECURSIVE placementsLoop(_, _, _, _)
placementsLoop(placements, byInstance, fiKeys, registryIndex) ==
  LET after(next) ==
        placementsLoop(Tail(placements), next.m, Append(fiKeys, next.fiKey),
                       registryIndex)
  IN IF placements = <<>> THEN Loop(byInstance, fiKeys)
     ELSE after(placementStep(Head(placements), byInstance, registryIndex))

\* placementsByFiFold taking an FI's by_termination from one of its instances
placementsByFiFoldOneInstance(byInstance) ==
  LET kept == {k \in DOMAIN byInstance : entryFiKey(byInstance[k]) # <<>>}
      fiKeys == {entryFiKey(byInstance[k]) : k \in kept}
      of(fiKey) == {k \in kept : entryFiKey(byInstance[k]) = fiKey}
  IN [fiKey \in fiKeys |->
        [total_placements |->
           JsSum(of(fiKey),
                 [k \in of(fiKey) |-> byInstance[k].total_placements]),
         successful_placements |->
           JsSum(of(fiKey),
                 [k \in of(fiKey) |-> byInstance[k].successful_placements]),
         by_termination |->
           byInstance[CHOOSE k \in of(fiKey) : TRUE].by_termination]]

\* the fold of byInstance into byFi (second loop of aggregatePlacementsFromRaw)
placementsByFiFold(byInstance) ==
  LET kept == {k \in DOMAIN byInstance : entryFiKey(byInstance[k]) # <<>>}
      fiKeys == {entryFiKey(byInstance[k]) : k \in kept}
      of(fiKey) == {k \in kept : entryFiKey(byInstance[k]) = fiKey}
      terms(fiKey) ==
        UNION {DOMAIN byInstance[k].by_termination : k \in of(fiKey)}
      with(fiKey, term) ==
        {k \in of(fiKey) : Has(byInstance[k].by_termination, term)}
  IN [fiKey \in fiKeys |->
        [total_placements |->
           JsSum(of(fiKey),
                 [k \in of(fiKey) |-> byInstance[k].total_placements]),
         successful_placements |->
           JsSum(of(fiKey),
                 [k \in of(fiKey) |-> byInstance[k].successful_placements]),
         by_termination |->
           [term \in terms(fiKey) |->
              JsSum(with(fiKey, term),
                    [k \in with(fiKey, term) |->
                       byInstance[k].by_termination[term]])]]]

aggregatePlacementsFromRaw(raw, registryIndex) ==
  LET result(loop) ==
        AggResult(placementsByFiFold(loop.m), loop.m, loop.fiKeys)
  IN IF ~Truthy(raw) \/ Truthy(Get(raw, "error")) THEN AggEmpty
     ELSE LET placements == ArrayOf(Get(raw, "placements"))
          IN result(placementsLoop(placements, EmptyMap, <<>>, registryIndex))

----------------------------------------------------------------------------
(* Daily document builder: src/lib/daily-rollups.mjs *)

\* index of the first occurrence of p in s, 0 when there is none
indexOf(s, p) ==
  IF includes(s, p)
  THEN CHOOSE i \in 1..(Len(s) - Len(p) + 1) :
         /\ SubSeq(s, i, i + Len(p) - 1) = p
         /\ \A j \in 1..(i - 1) : SubSeq(s, j, j + Len(p) - 1) # p
  ELSE 0

\* const [fi, instance] = key.split("__")
parseInstanceKey(key) ==
  IF ~includes(key, SEP) THEN [fi |-> key, instance |-> UNKNOWN_INSTANCE]
  ELSE LET i == indexOf(key, SEP)
           rest == SubSeq(key, i + 2, Len(key))
           j == indexOf(rest, SEP)
           second == IF j = 0 THEN rest ELSE SubSeq(rest, 1, j - 1)
       IN [fi |-> SubSeq(key, 1, i - 1),
           instance |-> IF second = <<>> THEN UNKNOWN_INSTANCE ELSE second]

\* values is a sequence of JsStr / JsUndef
chooseInstanceDisplay(values) ==
  LET strings == [i \in 1..Len(values) |->
                    IF Truthy(values[i]) THEN toString(values[i]) ELSE <<>>]
      candidates == SelectSeq(strings,
                              LAMBDA v : v # <<>> /\ v # UNKNOWN_INSTANCE)
      preferred == SelectSeq(candidates, LAMBDA v : includes(v, <<"-">>))
  IN IF preferred # <<>> THEN Head(preferred)
     ELSE IF candidates # <<>> THEN Head(candidates)
     ELSE UNKNOWN_INSTANCE

\* MaxZeroDiff with the two operands exchanged: Math.max(0, b - a)
MaxZeroDiffExchanged(a, b) ==
  IF a.t = "num" /\ b.t = "num"
  THEN JsNum(IF b.n - a.n > 0 THEN b.n - a.n ELSE 0)
  ELSE JsNaN

\* Math.max(0, a - b)
MaxZeroDiff(a, b) ==
  IF a.t = "num" /\ b.t = "num"
  THEN JsNum(IF a.n - b.n > 0 THEN a.n - b.n ELSE 0)
  ELSE IF a.t = "inf" /\ b.t = "num" THEN JsInf
  ELSE IF a.t = "num" /\ b.t = "inf" THEN JsNum(0)
  ELSE JsNaN

GaDefaults ==
  [select_merchants |-> JsNum(0), user_data_collection |-> JsNum(0),
   credential_entry |-> JsNum(0)]
SessionDefaults ==
  [total_sessions |-> JsNum(0), sessions_with_jobs |-> JsNum(0),
   sessions_with_success |-> JsNum(0), total_jobs_sum |-> JsUndef,
   successful_jobs_sum |-> JsUndef]
PlacementDefaults ==
  [total_placements |-> JsNum(0), successful_placements |-> JsNum(0),
   by_termination |-> EmptyMap]

docGa(g) ==
  [select_merchants |-> OrZero(g.select_merchants),
   user_data_collection |-> OrZero(g.user_data_collection),
   credential_entry |-> OrZero(g.credential_entry)]

docSessions(s) ==
  [total |-> s.total_sessions,
   with_jobs |-> s.sessions_with_jobs,
   with_success |-> s.sessions_with_success,
   without_jobs |-> MaxZeroDiff(OrZero(s.total_sessions),
                                OrZero(s.sessions_with_jobs)),
   total_jobs |-> OrZero(s.total_jobs_sum),
   successful_jobs |-> OrZero(s.successful_jobs_sum),
   job_distribution |-> EmptyMap]

\* buildFi over the FI keys of GA and sessions only
buildFiWithoutPlacementKeys(gaByFi, sessionsByFi, placementsByFi) ==
  LET allKeys == (DOMAIN gaByFi) \cup (DOMAIN sessionsByFi)
  IN [key \in allKeys |->
        LET g == IF Has(gaByFi, key) THEN gaByFi[key] ELSE GaDefaults
            s == IF Has(sessionsByFi, key) THEN sessionsByFi[key]
                 ELSE SessionDefaults
            p == IF Has(placementsByFi, key) THEN placementsByFi[key]
                 ELSE PlacementDefaults
            gaInstances == IF Has(gaByFi, key)
                           THEN {i \in gaByFi[key].instances : i # <<>>}
                           ELSE {}
        IN [ga |-> docGa(g),
            ga_instances |-> gaInstances,
            sessions |-> docSessions(s),
            placements |-> p]]

\* the first loop of buildDailyDocument: one entry per FI key
buildFi(gaByFi, sessionsByFi, placementsByFi) ==
  LET allKeys == (DOMAIN gaByFi) \cup (DOMAIN sessionsByFi)
                 \cup (DOMAIN placementsByFi)
  IN [key \in allKeys |->
        LET g == IF Has(gaByFi, key) THEN gaByFi[key] ELSE GaDefaults
            s == IF Has(sessionsByFi, key) THEN sessionsByFi[key]
                 ELSE SessionDefaults
            p == IF Has(placementsByFi, key) THEN placementsByFi[key]
                 ELSE PlacementDefaults
            gaInstances == IF Has(gaByFi, key)
                           THEN {i \in gaByFi[key].instances : i # <<>>}
                           ELSE {}
        IN [ga |-> docGa(g),
            ga_instances |-> gaInstances,
            sessions |-> docSessions(s),
            placements |-> p]]

\* the second loop of buildDailyDocument: one entry per FI-instance key
buildFiInstances(gaByInstance, sessionsByInstance, placementsByInstance) ==
  LET instanceKeys == (DOMAIN gaByInstance) \cup (DOMAIN sessionsByInstance)
                      \cup (DOMAIN placementsByInstance)
  IN [instanceKey \in instanceKeys |->
        LET hasGa == Has(gaByInstance, instanceKey)
            hasS == Has(sessionsByInstance, instanceKey)
            hasP == Has(placementsByInstance, instanceKey)
            parsed == parseInstanceKey(instanceKey)
            fiOf(has, m) == IF has THEN JsStr(m[instanceKey].fi_lookup_key)
                            ELSE JsUndef
            instOf(has, m) == IF has THEN JsStr(m[instanceKey].instance)
                              ELSE JsUndef
            fiLookupKey ==
              Or(Or(Or(Or(fiOf(hasGa, gaByInstance),
                          fiOf(hasS, sessionsByInstance)),
                       fiOf(hasP, placementsByInstance)),
                    JsStr(parsed.fi)), JsStr(UNKNOWN_FI))
            instanceValue ==
              chooseInstanceDisplay(<<instOf(hasGa, gaByInstance),
                                      instOf(hasS, sessionsByInstance),
                                      instOf(hasP, placementsByInstance),
                                      JsStr(parsed.instance)>>)
            g == IF hasGa THEN gaByInstance[instanceKey] ELSE GaDefaults
            s == IF hasS THEN sessionsByInstance[instanceKey]
                 ELSE SessionDefaults
            p == IF hasP THEN placementsByInstance[instanceKey]
                 ELSE PlacementDefaults
            isTest == (hasGa /\ gaByInstance[instanceKey].is_test)
                      \/ (hasS /\ sessionsByInstance[instanceKey].is_test)
                      \/ (hasP /\ placementsByInstance[instanceKey].is_test)
        IN [fi_lookup_key |-> fiLookupKey.s,
            instance |-> instanceValue,
            is_test |-> isTest,
            ga |-> docGa(g),
            sessions |-> docSessions(s),
            placements |->
              [total_placements |-> OrZero(p.total_placements),
               successful_placements |-> OrZero(p.successful_placements),
               by_termination |-> p.by_termination]]]

\* the argument is the object that the caller passes: day, the three byFi
\* maps and the three byInstance maps
buildDailyDocument(arg) ==
  [date |-> arg.day,
   sources |-> [ga |-> DOMAIN arg.gaByFi # {},
                sis_sessions |-> DOMAIN arg.sessionsByFi # {},
                sis_placements |-> DOMAIN arg.placementsByFi # {}],
   fi |-> buildFi(arg.gaByFi, arg.sessionsByFi, arg.placementsByFi),
   fi_instances |-> buildFiInstances(arg.gaByInstance,
                                     arg.sessionsByInstance,
                                     arg.placementsByInstance)]

----------------------------------------------------------------------------
(* Files.  A raw file or the registry file is NoFile or FileOf(value); an   *)
(* output file is NoFile, or a document that is completely or only partly   *)
(* on disk.                                                                 *)

NoFile == [st |-> "none"]
FileOf(v) == [st |-> "complete", v |-> v]
PartialOf(v) == [st |-> "partial", v |-> v]
\* a raw file whose content is not JSON (a truncated or corrupted file)
MalformedFile == [st |-> "malformed"]

\* src/lib/rawStorage.mjs readRaw: null when the file does not exist, else
\* the parsed content; for content that is not JSON, JSON.parse raises a
\* SyntaxError (readRawThrows) and readRaw returns nothing
readRaw(file) == IF file.st = "complete" THEN file.v ELSE JsNull
readRawThrows(file) == file.st = "malformed"

\* readFiRegistry: the entries of the registry, none when it cannot be read
readFiRegistry(file) == IF file.st = "none" THEN <<>> ELSE file.v

\* allSourcesMissing with rawValues.some in place of rawValues.every
allSourcesMissingSome(gaRaw, sessionsRaw, placementsRaw) ==
  ~Truthy(gaRaw) \/ ~Truthy(sessionsRaw) \/ ~Truthy(placementsRaw)

\* allSourcesMissing counting a payload without records as missing
allSourcesMissingOrEmpty(gaRaw, sessionsRaw, placementsRaw) ==
  /\ ~Truthy(gaRaw) \/ ArrayOf(Get(gaRaw, "rows")) = <<>>
  /\ ~Truthy(sessionsRaw) \/ ArrayOf(Get(sessionsRaw, "sessions")) = <<>>
  /\ ~Truthy(placementsRaw)
       \/ ArrayOf(Get(placementsRaw, "placements")) = <<>>

allSourcesMissing(gaRaw, sessionsRaw, placementsRaw) ==
  ~Truthy(gaRaw) /\ ~Truthy(sessionsRaw) /\ ~Truthy(placementsRaw)

\* enumerateRange / parseDateArgs for startDate <= endDate; days are numbered
enumerateRange(startDate, endDate) ==
  [i \in 1..(endDate - startDate + 1) |-> startDate + i - 1]

\* the three aggregations of one loop iteration, in call order
aggregateDay(day, gaRaw, sessionsRaw, placementsRaw, registryIndex) ==
  [ga |-> aggregateGaFromRaw(day, gaRaw, registryIndex),
   sessions |-> aggregateSessionsFromRaw(sessionsRaw, registryIndex),
   placements |-> aggregatePlacementsFromRaw(placementsRaw, registryIndex)]

documentOf(day, a) ==
  buildDailyDocument([day |-> day,
                      gaByFi |-> a.ga.byFi,
                      gaByInstance |-> a.ga.byInstance,
                      sessionsByFi |-> a.sessions.byFi,
                      sessionsByInstance |-> a.sessions.byInstance,
                      placementsByFi |-> a.placements.byFi,
                      placementsByInstance |-> a.placements.byInstance])

----------------------------------------------------------------------------
(* Bounds and inputs *)

\* strings of the input pools
T_host_acme_instance1 ==
  <<"a", "c", "m", "e", ".", "i", "n", "s", "t", "a", "n", "c", "e", "1",
  ".", "c", "a", "r", "d", "u", "p", "d", "a", "t", "r", ".", "a", "p",
  "p">>
T_host_acme_customer_dev ==
  <<"a", "c", "m", "e", ".", "c", "u", "s", "t", "o", "m", "e", "r", "-", "d",
    "e", "v", ".", "c", "a", "r", "d", "u", "p", "d", "a", "t", "r", ".", "a",
    "p", "p">>
T_host_acme_inst2 ==
  <<"a", "c", "m", "e", ".", "i", "n", "s", "t", "2", ".", "c", "a", "r",
  "d", "u", "p", "d", "a", "t", "r", ".", "a", "p", "p">>
T_host_other_instance1 ==
  <<"o", "t", "h", "e", "r", ".", "i", "n", "s", "t", "a", "n", "c", "e",
  "1", ".", "c", "a", "r", "d", "u", "p", "d", "a", "t", "r", ".", "a", "p",
  "p">>
T_host_foreign == <<"e", "x", "a", "m", "p", "l", "e", ".", "c", "o", "m">>
T_abc == <<"a", "b", "c">>
T_ACME == <<"A", "C", "M", "E">>
T_Acme_CU == <<"A", "c", "m", "e", " ", "C", "U">>
T_acme == <<"a", "c", "m", "e">>
T_Beta_Bank == <<"B", "e", "t", "a", " ", "B", "a", "n", "k">>
T_BETA == <<"B", "E", "T", "A">>
T_Instance1 == <<"I", "n", "s", "t", "a", "n", "c", "e", "1">>
T_inst_sp_2 == <<"i", "n", "s", "t", " ", "2">>
T_inst_us_2 == <<"i", "n", "s", "t", "_", "2">>
T_site_failure ==
  <<"s", "i", "t", "e", "_", "f", "a", "i", "l", "u", "r", "e">>
T_boom == <<"b", "o", "o", "m">>

\* the largest number of records in the raw files of one day (AggSpec)
MaxRecs == 2
\* the number of days of the processed range (Spec)
NumDays == 2
\* the number of invocations of buildDailyFromRawRange (Spec)
MaxRuns == 2

Sources == {"ga", "sessions", "placements"}

gaSelect ==
  JsObj([host |-> JsStr(T_host_acme_instance1),
         page |-> JsStr(P_select_merchants), active_users |-> JsNum(5)])
gaUnparsed ==
  JsObj([host |-> JsStr(T_host_acme_inst2),
         pagePath |-> JsStr(P_select_merchants), views |-> JsStr(T_abc)])
gaForeign ==
  JsObj([host |-> JsStr(T_host_foreign), page |-> JsStr(P_select_merchants),
         views |-> JsNum(1)])
gaExplicit ==
  JsObj([fi_key |-> JsStr(T_ACME), fi_name |-> JsStr(T_Beta_Bank),
         host |-> JsStr(T_host_other_instance1),
         page |-> JsStr(P_user_data_collection), views |-> JsNum(1)])
\* a row whose host is a number
gaBadHost ==
  JsObj([host |-> JsNum(42), page |-> JsStr(P_select_merchants),
         views |-> JsNum(1)])
\* a row of the test instance customer-dev
gaTest ==
  JsObj([host |-> JsStr(T_host_acme_customer_dev),
         page |-> JsStr(P_credential_entry), views |-> JsNum(2)])
GaRowPool ==
  {gaSelect, gaUnparsed, gaForeign, gaExplicit, gaBadHost, gaTest}

sessAcme ==
  JsObj([total_jobs |-> JsNum(3), successful_jobs |-> JsNum(1),
         fi_lookup_key |-> JsStr(T_acme), _instance |-> JsStr(T_Instance1)])
sessAcme2 ==
  JsObj([total_jobs |-> JsNum(0), successful_jobs |-> JsNum(0),
         fi_lookup_key |-> JsStr(T_ACME), instance |-> JsStr(T_inst_sp_2)])
sessNoFi == JsObj([total_jobs |-> JsNum(1)])
sessMasked ==
  JsObj([financial_institution_lookup_key |-> JsStr(<<>>), fi_lookup_key |-> JsStr(T_acme),
         fi_name |-> JsStr(T_Beta_Bank), _instance |-> JsStr(T_Instance1),
         total_jobs |-> JsNum(2)])
\* a session whose total_jobs is the string "Infinity"
sessInfinite ==
  JsObj([fi_lookup_key |-> JsStr(T_acme), _instance |-> JsStr(T_Instance1),
         total_jobs |-> JsStr(S_Infinity), successful_jobs |-> JsNum(1)])
SessionPool == {sessAcme, sessAcme2, sessNoFi, sessMasked, sessInfinite}

plcNoFi == JsObj([status |-> JsStr(S_SUCCESSFUL)])
plcAcme ==
  JsObj([fi_lookup_key |-> JsStr(T_ACME), _instance |-> JsStr(T_Instance1),
         termination_type |-> JsStr(S_BILLABLE)])
plcAcme2 ==
  JsObj([financial_institution_lookup_key |-> JsStr(T_acme), fi_name |-> JsStr(T_Beta_Bank),
         instance |-> JsStr(T_inst_us_2), termination_type |-> JsStr(T_site_failure)])
PlacementPool == {plcNoFi, plcAcme, plcAcme2}

\* Object.values of the registry file's content
registryEntries ==
  <<JsObj([fi_name |-> JsStr(T_Beta_Bank), fi_lookup_key |-> JsStr(T_BETA)]),
    JsObj([fi_name |-> JsStr(T_Acme_CU), fi_lookup_key |-> JsStr(T_acme)])>>
RegistryPool == {NoFile, FileOf(registryEntries)}

\* a raw day payload {date, rows | sessions | placements, error?}
rawPayload(source, day, records, flagged) ==
  LET list == JsArr(records)
      err == JsStr(T_boom)
  IN CASE source = "ga" ->
            IF flagged
            THEN JsObj([date |-> JsNum(day), rows |-> list, error |-> err])
            ELSE JsObj([date |-> JsNum(day), rows |-> list])
       [] source = "sessions" ->
            IF flagged
            THEN JsObj([date |-> JsNum(day), sessions |-> list, error |-> err])
            ELSE JsObj([date |-> JsNum(day), sessions |-> list])
       [] OTHER ->
            IF flagged
            THEN JsObj([date |-> JsNum(day), placements |-> list, error |-> err])
            ELSE JsObj([date |-> JsNum(day), placements |-> list])

\* the files a source can have for a day, given the records it holds
SourceFiles(source, day, records) ==
  {FileOf(rawPayload(source, day, records, flagged)) : flagged \in BOOLEAN}
  \cup (IF records = <<>> THEN {NoFile} ELSE {})

\* the raw files of a day in the range driver's specification
DayPool(day) ==
  {[ga |-> NoFile, sessions |-> NoFile, placements |-> NoFile],
   [ga |-> FileOf(rawPayload("ga", day, <<>>, FALSE)),
    sessions |-> FileOf(rawPayload("sessions", day, <<>>, FALSE)),
    placements |-> FileOf(rawPayload("placements", day, <<>>, FALSE))],
   [ga |-> FileOf(rawPayload("ga", day, <<gaSelect>>, FALSE)),
    sessions |-> NoFile, placements |-> NoFile],
   [ga |-> FileOf(rawPayload("ga", day, <<gaSelect>>, TRUE)),
    sessions |-> FileOf(rawPayload("sessions", day, <<sessAcme>>, FALSE)),
    placements |-> FileOf(rawPayload("placements", day, <<plcNoFi>>, FALSE))],
   [ga |-> FileOf(rawPayload("ga", day, <<gaSelect>>, FALSE)),
    sessions |-> MalformedFile, placements |-> NoFile]}

NoRawFiles == [ga |-> NoFile, sessions |-> NoFile, placements |-> NoFile]

\* a document left in the output directory by an earlier build
staleDocument(day) ==
  documentOf(day,
             aggregateDay(day, rawPayload("ga", day, <<gaExplicit>>, FALSE),
                          JsNull, JsNull, buildRegistryIndex(<<>>)))

----------------------------------------------------------------------------
(* The range driver buildDailyFromRawRange and writeDailyFile *)

VARIABLES
  registryFile,   \* fi_registry.json
  rawFiles,       \* raw/<source>/<day>.json, per day and source
  outFiles,       \* data/daily/<day>.json, per day
  tmpFile,        \* the temporary sibling file of the write in progress
  startDate,      \* arguments of the invocation
  endDate,
  pc,             \* position of buildDailyFromRawRange
  runs,           \* invocations started so far
  registryIndex,  \* local: the index built at the start of the invocation
  dates,          \* local: enumerateRange(startDate, endDate)
  dayIdx,         \* local: position of the loop in dates
  agg,            \* local: the aggregators' results of the current day
  doc,            \* local: the document of the current day
  log,            \* console output: <<run, day, "skip" | "wrote">>
  firstRun,       \* the output files as the first invocation left them
  seen,           \* what a concurrent reader last read from an output file
  rejection,      \* the reason the invocation's promise rejected with, or "none"
  call,           \* a direct call of a helper: its name and its arguments
  ret             \* the values that the called helper returned, in order

vars ==
  <<registryFile, rawFiles, outFiles, tmpFile, startDate, endDate, pc, runs,
    registryIndex, dates, dayIdx, agg, doc, log, firstRun, seen, rejection,
    call, ret>>

Days == 1..NumDays
NoAgg == [ga |-> AggEmpty, sessions |-> AggEmpty, placements |-> AggEmpty]
NoDoc == [date |-> 0]
NoIndex == [byLookup |-> EmptyMap, byName |-> EmptyMap]
NoCall == [fn |-> "none", args |-> <<>>]

InitLocals ==
  /\ tmpFile = NoFile
  /\ pc = "idle"
  /\ runs = 0
  /\ registryIndex = NoIndex
  /\ dates = <<>>
  /\ dayIdx = 1
  /\ agg = NoAgg
  /\ doc = NoDoc
  /\ log = {}
  /\ seen = NoFile
  /\ rejection = "none"
  /\ call = NoCall
  /\ ret = <<>>

\* the range driver over NumDays days, an output directory that may hold
\* documents of an earlier build, and any registry of the pool
Init ==
  /\ registryFile \in RegistryPool
  /\ rawFiles \in {f \in [Days -> UNION {DayPool(d) : d \in Days}] :
                     \A d \in Days : f[d] \in DayPool(d)}
  /\ outFiles \in {[d \in Days |-> IF d \in stale
                                   THEN FileOf(staleDocument(d))
                                   ELSE NoFile] : stale \in SUBSET Days}
  /\ startDate = 1
  /\ endDate = NumDays
  /\ firstRun = outFiles
  /\ InitLocals

\* one day with up to MaxRecs records taken from the pools, in any order,
\* each source's file present, flagged with an error, or (when it holds no
\* record) absent; an empty output directory
AggInit ==
  /\ registryFile \in RegistryPool
  /\ \E n1 \in 0..MaxRecs : \E n2 \in 0..(MaxRecs - n1) :
       \E n3 \in 0..(MaxRecs - n1 - n2) :
         \E g \in [1..n1 -> GaRowPool] : \E s \in [1..n2 -> SessionPool] :
           \E p \in [1..n3 -> PlacementPool] :
             \E gf \in SourceFiles("ga", 1, g) :
               \E sf \in SourceFiles("sessions", 1, s) :
                 \E pf \in SourceFiles("placements", 1, p) :
                   rawFiles = [d \in Days |->
                                 IF d = 1
                                 THEN [ga |-> gf, sessions |-> sf,
                                       placements |-> pf]
                                 ELSE NoRawFiles]
  /\ outFiles = [d \in Days |-> NoFile]
  /\ startDate = 1
  /\ endDate = 1
  /\ firstRun = outFiles
  /\ InitLocals

\* the synchronous start of buildDailyFromRawRange, up to the loop
Invoke ==
  /\ registryIndex' = buildRegistryIndex(readFiRegistry(registryFile))
  /\ dates' = enumerateRange(startDate, endDate)
  /\ dayIdx' = 1
  /\ runs' = runs + 1
  /\ agg' = NoAgg
  /\ doc' = NoDoc
  /\ pc' = "loop"
  /\ UNCHANGED <<registryFile, rawFiles, outFiles, tmpFile, startDate, endDate,
                 log, firstRun, seen, rejection, call, ret>>

Start == pc = "idle" /\ Invoke

\* the caller runs the build again over the same range
Rerun == pc = "done" /\ runs < MaxRuns /\ Invoke

currentDay == dates[dayIdx]
gaRaw == readRaw(rawFiles[currentDay].ga)
sessionsRaw == readRaw(rawFiles[currentDay].sessions)
placementsRaw == readRaw(rawFiles[currentDay].placements)
\* one of the three readRaw calls of the iteration raises
rawUnreadable ==
  \E source \in Sources : readRawThrows(rawFiles[currentDay][source])

\* loop iteration for a day with a raw file that is not JSON: readRaw raises
\* and, nothing catching it, the invocation rejects
ReadFail ==
  /\ pc = "loop" /\ dayIdx <= Len(dates)
  /\ rawUnreadable
  /\ pc' = "failed"
  /\ rejection' = "SyntaxError"
  /\ UNCHANGED <<registryFile, rawFiles, outFiles, tmpFile, startDate, endDate,
                 runs, registryIndex, dates, dayIdx, agg, doc, log, firstRun,
                 seen, call, ret>>

\* SkipDay removing the document that the output directory holds for the day
SkipDayRemoving ==
  /\ pc = "loop" /\ dayIdx <= Len(dates)
  /\ ~rawUnreadable
  /\ allSourcesMissing(gaRaw, sessionsRaw, placementsRaw)
  /\ outFiles' = [outFiles EXCEPT ![currentDay] = NoFile]
  /\ log' = log \cup {<<runs, currentDay, "skip">>}
  /\ dayIdx' = dayIdx + 1
  /\ agg' = NoAgg
  /\ doc' = NoDoc
  /\ UNCHANGED <<registryFile, rawFiles, tmpFile, startDate, endDate, pc, runs,
                 registryIndex, dates, firstRun, seen, rejection, call, ret>>

\* loop iteration for a day without raw files: warn and continue
SkipDay ==
  /\ pc = "loop" /\ dayIdx <= Len(dates)
  /\ ~rawUnreadable
  /\ allSourcesMissing(gaRaw, sessionsRaw, placementsRaw)
  /\ log' = log \cup {<<runs, currentDay, "skip">>}
  /\ dayIdx' = dayIdx + 1
  /\ agg' = NoAgg
  /\ doc' = NoDoc
  /\ UNCHANGED <<registryFile, rawFiles, outFiles, tmpFile, startDate, endDate,
                 pc, runs, registryIndex, dates, firstRun, seen, rejection,
                 call, ret>>

\* BuildDay reading fi_registry.json again for the day it aggregates
BuildDayRereading ==
  /\ pc = "loop" /\ dayIdx <= Len(dates)
  /\ ~rawUnreadable
  /\ ~allSourcesMissing(gaRaw, sessionsRaw, placementsRaw)
  /\ LET built(a) ==
           IF a.ga.threw
           THEN /\ agg' = [NoAgg EXCEPT !.ga = AggThrow]
                /\ doc' = NoDoc
                /\ pc' = "failed"
                /\ rejection' = "TypeError"
           ELSE /\ agg' = a
                /\ doc' = documentOf(currentDay, a)
                /\ pc' = "mkdir"
                /\ rejection' = rejection
     IN built(aggregateDay(currentDay, gaRaw, sessionsRaw, placementsRaw,
                           buildRegistryIndex(readFiRegistry(registryFile))))
  /\ UNCHANGED <<registryFile, rawFiles, outFiles, tmpFile, startDate, endDate,
                 runs, registryIndex, dates, dayIdx, log, firstRun, seen, call,
                 ret>>

\* loop iteration for a day with raw files, up to the first await of
\* writeDailyFile; a throwing aggregator rejects the invocation
BuildDay ==
  /\ pc = "loop" /\ dayIdx <= Len(dates)
  /\ ~rawUnreadable
  /\ ~allSourcesMissing(gaRaw, sessionsRaw, placementsRaw)
  /\ LET built(a) ==
           IF a.ga.threw
           THEN /\ agg' = [NoAgg EXCEPT !.ga = AggThrow]
                /\ doc' = NoDoc
                /\ pc' = "failed"
                /\ rejection' = "TypeError"
           ELSE /\ agg' = a
                /\ doc' = documentOf(currentDay, a)
                /\ pc' = "mkdir"
                /\ rejection' = rejection
     IN built(aggregateDay(currentDay, gaRaw, sessionsRaw, placementsRaw,
                           registryIndex))
  /\ UNCHANGED <<registryFile, rawFiles, outFiles, tmpFile, startDate, endDate,
                 runs, registryIndex, dates, dayIdx, log, firstRun, seen, call,
                 ret>>

\* EnsureDir with the loop not awaiting writeDailyFile: the next iteration
\* starts while the write is still pending
EnsureDirUnawaited ==
  /\ pc = "mkdir"
  /\ pc' = "loop"
  /\ log' = log \cup {<<runs, currentDay, "wrote">>}
  /\ dayIdx' = dayIdx + 1
  /\ UNCHANGED <<registryFile, rawFiles, outFiles, tmpFile, startDate, endDate,
                 runs, registryIndex, dates, agg, doc, firstRun, seen,
                 rejection, call, ret>>

\* writeDailyFile: await ensureDir(baseDir)
EnsureDir ==
  /\ pc = "mkdir"
  /\ pc' = "write"
  /\ UNCHANGED <<registryFile, rawFiles, outFiles, tmpFile, startDate, endDate,
                 runs, registryIndex, dates, dayIdx, agg, doc, log, firstRun,
                 seen, rejection, call, ret>>

\* WriteTmp writing to filePath itself instead of the temporary sibling
WriteInPlace ==
  /\ pc = "write"
  /\ outFiles' = [outFiles EXCEPT ![currentDay] = PartialOf(doc)]
  /\ pc' = "writing"
  /\ UNCHANGED <<registryFile, rawFiles, tmpFile, startDate, endDate, runs,
                 registryIndex, dates, dayIdx, agg, doc, log, firstRun, seen,
                 rejection, call, ret>>

\* writeDailyFile: fs.writeFile(tmpPath, ...) has created the temporary file
\* and written part of the content
WriteTmp ==
  /\ pc = "write"
  /\ tmpFile' = PartialOf(doc)
  /\ pc' = "writing"
  /\ UNCHANGED <<registryFile, rawFiles, outFiles, startDate, endDate, runs,
                 registryIndex, dates, dayIdx, agg, doc, log, firstRun, seen,
                 rejection, call, ret>>

\* writeDailyFile: fs.writeFile(tmpPath, ...) completes
WriteTmpDone ==
  /\ pc = "writing"
  /\ tmpFile' = FileOf(doc)
  /\ pc' = "rename"
  /\ UNCHANGED <<registryFile, rawFiles, outFiles, startDate, endDate, runs,
                 registryIndex, dates, dayIdx, agg, doc, log, firstRun, seen,
                 rejection, call, ret>>

\* Rename patching an existing document: FI entries of the old document that
\* the new one lacks are kept
RenameMerging ==
  /\ pc = "rename"
  /\ LET old == outFiles[currentDay]
         merged ==
           [tmpFile.v EXCEPT
              !.fi = [k \in (DOMAIN old.v.fi) \cup (DOMAIN tmpFile.v.fi) |->
                        IF k \in DOMAIN tmpFile.v.fi THEN tmpFile.v.fi[k]
                        ELSE old.v.fi[k]]]
     IN outFiles' = [outFiles EXCEPT
                       ![currentDay] = IF old.st = "complete"
                                       THEN FileOf(merged) ELSE tmpFile]
  /\ tmpFile' = NoFile
  /\ log' = log \cup {<<runs, currentDay, "wrote">>}
  /\ dayIdx' = dayIdx + 1
  /\ pc' = "loop"
  /\ UNCHANGED <<registryFile, rawFiles, startDate, endDate, runs,
                 registryIndex, dates, agg, doc, firstRun, seen, rejection,
                 call, ret>>

\* writeDailyFile: fs.rename(tmpPath, filePath), then the loop's console.log
Rename ==
  /\ pc = "rename"
  /\ outFiles' = [outFiles EXCEPT ![currentDay] = tmpFile]
  /\ tmpFile' = NoFile
  /\ log' = log \cup {<<runs, currentDay, "wrote">>}
  /\ dayIdx' = dayIdx + 1
  /\ pc' = "loop"
  /\ UNCHANGED <<registryFile, rawFiles, startDate, endDate, runs,
                 registryIndex, dates, agg, doc, firstRun, seen, rejection,
                 call, ret>>

\* a file-system call of writeDailyFile fails: the invocation rejects
WriteFail ==
  /\ pc \in {"mkdir", "write", "writing", "rename"}
  /\ pc' = "failed"
  /\ rejection' = "write"
  /\ UNCHANGED <<registryFile, rawFiles, outFiles, tmpFile, startDate, endDate,
                 runs, registryIndex, dates, dayIdx, agg, doc, log, firstRun,
                 seen, call, ret>>

\* the loop is over: the invocation resolves
Finish ==
  /\ pc = "loop" /\ dayIdx > Len(dates)
  /\ pc' = "done"
  /\ firstRun' = IF runs = 1 THEN outFiles ELSE firstRun
  /\ UNCHANGED <<registryFile, rawFiles, outFiles, tmpFile, startDate, endDate,
                 runs, registryIndex, dates, dayIdx, agg, doc, log, seen,
                 rejection, call, ret>>

\* a concurrent reader (the dashboard server) reads a day's output file
Read ==
  /\ \E d \in Days : seen' = outFiles[d]
  /\ UNCHANGED <<registryFile, rawFiles, outFiles, tmpFile, startDate, endDate,
                 pc, runs, registryIndex, dates, dayIdx, agg, doc, log,
                 firstRun, rejection, call, ret>>

Next ==
  \/ Start
  \/ Rerun
  \/ ReadFail
  \/ SkipDay
  \/ BuildDay
  \/ EnsureDir
  \/ WriteTmp
  \/ WriteTmpDone
  \/ Rename
  \/ WriteFail
  \/ Finish
  \/ Read

Spec == Init /\ [][Next]_vars

AggNext ==
  \/ Start
  \/ SkipDay
  \/ BuildDay
  \/ EnsureDir
  \/ WriteTmp
  \/ WriteTmpDone
  \/ Rename
  \/ Finish

AggSpec == AggInit /\ [][AggNext]_vars

----------------------------------------------------------------------------
(* Direct calls of the key helpers.  The initial state draws a call, the   *)
(* actions apply the helper named in it.                                   *)

\* the longest string argument of a direct call
MaxStr == 3

KeyAlphabet == {"a", "B", " ", "-", "7", "_", "!"}
KeyStrings == UNION {[1..n -> KeyAlphabet] : n \in 0..MaxStr}
KeyValues ==
  {JsUndef, JsNull, JsNaN, JsNum(0), JsNum(42), JsObj(EmptyMap)}
  \cup {JsStr(s) : s \in KeyStrings}
InstanceSamples == {JsUndef, JsStr(T_Instance1), JsStr(T_inst_sp_2)}
\* the values that formatInstanceDisplay is called with: the key values and
\* the names that the override table holds
DisplayValues ==
  KeyValues \cup {JsStr(S_digitalonboarding), JsStr(S_digital_onboarding),
                  JsStr(toUpperCase(S_digitalonboarding) \o <<" ">>),
                  JsStr(T_inst_us_2)}
NameSamples ==
  {JsUndef, JsNull, JsStr(<<>>), JsStr(T_Beta_Bank), JsStr(T_Acme_CU),
   JsStr(T_ACME)}

KeyCalls ==
  {[fn |-> "canonicalInstance", args |-> <<v>>] : v \in KeyValues}
  \cup {[fn |-> "makeFiInstanceKey", args |-> <<fi, instance>>] :
          fi \in KeyValues, instance \in InstanceSamples}
  \cup {[fn |-> "resolveFiKey", args |-> <<preferred, fallbackName>>] :
          preferred \in NameSamples, fallbackName \in NameSamples}
  \cup {[fn |-> "formatInstanceDisplay", args |-> <<v>>] : v \in DisplayValues}

KeyInit ==
  /\ registryFile \in RegistryPool
  /\ rawFiles = [d \in Days |-> NoRawFiles]
  /\ outFiles = [d \in Days |-> NoFile]
  /\ startDate = 1
  /\ endDate = 1
  /\ firstRun = outFiles
  /\ tmpFile = NoFile
  /\ pc = "idle"
  /\ runs = 0
  /\ registryIndex = NoIndex
  /\ dates = <<>>
  /\ dayIdx = 1
  /\ agg = NoAgg
  /\ doc = NoDoc
  /\ log = {}
  /\ seen = NoFile
  /\ rejection = "none"
  /\ call \in KeyCalls
  /\ ret = <<>>

\* canonicalInstance applied to the argument, then to its own result
ApplyCanonicalInstance ==
  /\ call.fn = "canonicalInstance"
  /\ Len(ret) < 2
  /\ ret' = Append(ret, JsStr(canonicalInstance(IF ret = <<>> THEN call.args[1]
                                                ELSE ret[Len(ret)])))
  /\ UNCHANGED <<registryFile, rawFiles, outFiles, tmpFile, startDate, endDate,
                 pc, runs, registryIndex, dates, dayIdx, agg, doc, log,
                 firstRun, seen, rejection, call>>

ApplyMakeFiInstanceKey ==
  /\ call.fn = "makeFiInstanceKey"
  /\ ret = <<>>
  /\ ret' = <<JsStr(makeFiInstanceKey(call.args[1], call.args[2]))>>
  /\ UNCHANGED <<registryFile, rawFiles, outFiles, tmpFile, startDate, endDate,
                 pc, runs, registryIndex, dates, dayIdx, agg, doc, log,
                 firstRun, seen, rejection, call>>

\* resolveFiKey applied with the index of the registry file
ApplyResolveFiKey ==
  /\ call.fn = "resolveFiKey"
  /\ ret = <<>>
  /\ ret' = <<resolveFiKey(call.args[1], call.args[2],
                           buildRegistryIndex(readFiRegistry(registryFile)))>>
  /\ UNCHANGED <<registryFile, rawFiles, outFiles, tmpFile, startDate, endDate,
                 pc, runs, registryIndex, dates, dayIdx, agg, doc, log,
                 firstRun, seen, rejection, call>>

\* formatInstanceDisplay applied to the argument, then canonicalInstance to
\* the display name, as the aggregators' loops do
ApplyFormatInstanceDisplay ==
  /\ call.fn = "formatInstanceDisplay"
  /\ Len(ret) < 2
  /\ ret' = IF ret = <<>> THEN <<JsStr(formatInstanceDisplay(call.args[1]))>>
            ELSE Append(ret, JsStr(canonicalInstance(ret[1])))
  /\ UNCHANGED <<registryFile, rawFiles, outFiles, tmpFile, startDate, endDate,
                 pc, runs, registryIndex, dates, dayIdx, agg, doc, log,
                 firstRun, seen, rejection, call>>

KeyNext ==
  \/ ApplyCanonicalInstance
  \/ ApplyMakeFiInstanceKey
  \/ ApplyResolveFiKey
  \/ ApplyFormatInstanceDisplay

KeySpec == KeyInit /\ [][KeyNext]_vars

----------------------------------------------------------------------------
(* One invocation of the range driver while fi_registry.json is edited.    *)

\* the raw files of a day: none, or sessions (and GA rows) with a session
\* whose FI is resolved through the registry's name index
RegDayPool(day) ==
  {NoRawFiles,
   [ga |-> NoFile,
    sessions |-> FileOf(rawPayload("sessions", day, <<sessMasked>>, FALSE)),
    placements |-> NoFile],
   [ga |-> FileOf(rawPayload("ga", day, <<gaSelect>>, FALSE)),
    sessions |-> FileOf(rawPayload("sessions", day, <<sessAcme, sessMasked>>,
                                   FALSE)),
    placements |-> NoFile]}

RegInit ==
  /\ registryFile \in RegistryPool
  /\ rawFiles \in {f \in [Days -> UNION {RegDayPool(d) : d \in Days}] :
                     \A d \in Days : f[d] \in RegDayPool(d)}
  /\ outFiles = [d \in Days |-> NoFile]
  /\ startDate = 1
  /\ endDate = NumDays
  /\ firstRun = outFiles
  /\ InitLocals

\* another process replaces fi_registry.json
EditRegistry ==
  /\ registryFile' \in RegistryPool \ {registryFile}
  /\ UNCHANGED <<rawFiles, outFiles, tmpFile, startDate, endDate, pc, runs,
                 registryIndex, dates, dayIdx, agg, doc, log, firstRun, seen,
                 rejection, call, ret>>

RegNext ==
  \/ Start
  \/ EditRegistry
  \/ SkipDay
  \/ BuildDay
  \/ EnsureDir
  \/ WriteTmp
  \/ WriteTmpDone
  \/ Rename
  \/ Finish

RegSpec == RegInit /\ [][RegNext]_vars

----------------------------------------------------------------------------
(* One day whose records are the cases that the specification names.       *)

T_host_default_advancial ==
  <<"d", "e", "f", "a", "u", "l", "t", ".", "a", "d", "v", "a", "n", "c",
    "i", "a", "l", "-", "p", "r", "o", "d", ".", "c", "a", "r", "d", "u",
    "p", "d", "a", "t", "r", ".", "a", "p", "p">>

\* a row of the legacy host default.advancial-prod
gaLegacy ==
  JsObj([host |-> JsStr(T_host_default_advancial),
         page |-> JsStr(P_select_merchants), views |-> JsNum(4)])
\* rows of acme.instance1 on the credential entry page, on a page of no
\* funnel step, and on a page below the select-merchants path
gaCred ==
  JsObj([host |-> JsStr(T_host_acme_instance1),
         page |-> JsStr(P_credential_entry), views |-> JsNum(2)])
gaOther ==
  JsObj([host |-> JsStr(T_host_acme_instance1),
         page |-> JsStr(<<"/", "h", "o", "m", "e">>), views |-> JsNum(7)])
gaSelectSub ==
  JsObj([host |-> JsStr(T_host_acme_instance1),
         pagePath |-> JsStr(P_select_merchants \o <<"/", "2">>),
         screenPageViews |-> JsNum(3)])
CaseGaPool ==
  {gaLegacy, gaSelect, gaExplicit, gaCred, gaOther, gaSelectSub}

\* sessions of the legacy combination, in its two spellings
sessLegacyA ==
  JsObj([fi_lookup_key |-> JsStr(S_default),
         _instance |-> JsStr(S_advancial_prod), total_jobs |-> JsNum(1)])
sessLegacyB ==
  JsObj([fi_lookup_key |-> JsStr(S_advancial_prod),
         instance |-> JsStr(S_default)])
\* a session of the test instance customer-dev, a session whose FI key is a
\* blank, and entries of the sessions array that are not session objects
sessTest ==
  JsObj([fi_lookup_key |-> JsStr(T_acme), _instance |-> JsStr(S_customer_dev),
         total_jobs |-> JsNum(1)])
sessBlankFi ==
  JsObj([fi_lookup_key |-> JsStr(<<" ">>), _instance |-> JsStr(T_Instance1)])
\* a session whose FI key is two blanks
sessBlankFi2 ==
  JsObj([fi_lookup_key |-> JsStr(<<" ", " ">>),
         _instance |-> JsStr(T_Instance1)])
CaseSessionPool ==
  {sessLegacyA, sessLegacyB, sessAcme, sessTest, sessBlankFi, sessBlankFi2,
   JsNull, JsArr(<<>>)}

\* placements of the legacy combination, in its two spellings
plcLegacyA ==
  JsObj([fi_lookup_key |-> JsStr(S_default),
         instance |-> JsStr(S_advancial_prod)])
plcLegacyB ==
  JsObj([financial_institution_lookup_key |-> JsStr(S_advancial_prod),
         _instance |-> JsStr(S_default), status |-> JsStr(S_SUCCESSFUL)])
\* a placement of the test instance customer-dev
plcTest ==
  JsObj([fi_lookup_key |-> JsStr(T_acme), instance |-> JsStr(S_customer_dev),
         termination_type |-> JsStr(S_BILLABLE)])
CasePlacementPool ==
  {plcLegacyA, plcLegacyB, plcAcme, plcAcme2, plcTest, JsNum(7)}

\* the file of a source holding the records: present, or, without a record,
\* also absent
CaseFiles(source, records) ==
  {FileOf(rawPayload(source, 1, records, FALSE))}
  \cup (IF records = <<>> THEN {NoFile} ELSE {})

\* one day with up to MaxRecs records of the case pools, in any order; an
\* empty output directory
CaseInit ==
  /\ registryFile \in RegistryPool
  /\ \E n1 \in 0..MaxRecs : \E n2 \in 0..(MaxRecs - n1) :
       \E n3 \in 0..(MaxRecs - n1 - n2) :
         \E g \in [1..n1 -> CaseGaPool] : \E s \in [1..n2 -> CaseSessionPool] :
           \E p \in [1..n3 -> CasePlacementPool] :
             \E gf \in CaseFiles("ga", g) : \E sf \in CaseFiles("sessions", s) :
               \E pf \in CaseFiles("placements", p) :
                 rawFiles = [d \in Days |->
                               IF d = 1
                               THEN [ga |-> gf, sessions |-> sf,
                                     placements |-> pf]
                               ELSE NoRawFiles]
  /\ outFiles = [d \in Days |-> NoFile]
  /\ startDate = 1
  /\ endDate = 1
  /\ firstRun = outFiles
  /\ InitLocals

CaseSpec == CaseInit /\ [][AggNext]_vars

----------------------------------------------------------------------------
(* Properties *)

BuildPcs == {"mkdir", "write", "writing", "rename"}

\* the documents on disk
Written == {d \in Days : outFiles[d].st = "complete"}

\* the entry of a by_termination map, 0 for a reason it does not list
TermCount(m, term) == IF Has(m, term) THEN m[term] ELSE JsNum(0)

\* the sum over the keys ks of map m of counter field f
SumOf(m, ks, f) == JsSum(ks, [k \in ks |-> m[k][f]])

GaFields == {"select_merchants", "user_data_collection", "credential_entry"}
SessionsFields ==
  {"total", "with_jobs", "with_success", "without_jobs", "total_jobs",
   "successful_jobs"}
PlacementsFields == {"total_placements", "successful_placements"}

\* in document D, the FI entry k is the sum of the instance entries of k
FiEntryIsSum(D, k) ==
  LET ks == {i \in DOMAIN D.fi_instances :
               D.fi_instances[i].fi_lookup_key = k}
      part(src) == [i \in ks |-> D.fi_instances[i][src]]
      terms == (DOMAIN D.fi[k].placements.by_termination)
               \cup UNION {DOMAIN D.fi_instances[i].placements.by_termination :
                             i \in ks}
  IN /\ \A f \in GaFields : D.fi[k].ga[f] = SumOf(part("ga"), ks, f)
     /\ \A f \in SessionsFields :
          D.fi[k].sessions[f] = SumOf(part("sessions"), ks, f)
     /\ \A f \in PlacementsFields :
          D.fi[k].placements[f] = SumOf(part("placements"), ks, f)
     /\ \A term \in terms :
          TermCount(D.fi[k].placements.by_termination, term)
            = JsSum(ks, [i \in ks |->
                 TermCount(D.fi_instances[i].placements.by_termination, term)])

\* C1: in every daily document written by buildDailyFromRawRange, every
\* counter of fi[k] (GA, sessions, placements, each by_termination count) is
\* the sum of that counter over the fi_instances entries whose fi_lookup_key
\* is k.
C1_FiIsSumOfInstances ==
  \A d \in Written :
    \A k \in DOMAIN outFiles[d].v.fi : FiEntryIsSum(outFiles[d].v, k)

\* the FI part of a per-instance key
FiOfKey(key) == parseInstanceKey(key).fi
KeysOfFi(byInstance, fiKey) ==
  {k \in DOMAIN byInstance : FiOfKey(k) = fiKey}

ByFiIsFold(r, fields) ==
  /\ DOMAIN r.byFi = {FiOfKey(k) : k \in DOMAIN r.byInstance}
  /\ \A fiKey \in DOMAIN r.byFi : \A f \in fields :
       r.byFi[fiKey][f] = SumOf(r.byInstance, KeysOfFi(r.byInstance, fiKey), f)

TerminationIsFold(r) ==
  \A fiKey \in DOMAIN r.byFi :
    LET ks == KeysOfFi(r.byInstance, fiKey)
        terms == (DOMAIN r.byFi[fiKey].by_termination)
                 \cup UNION {DOMAIN r.byInstance[k].by_termination : k \in ks}
    IN \A term \in terms :
         TermCount(r.byFi[fiKey].by_termination, term)
           = JsSum(ks, [k \in ks |->
                          TermCount(r.byInstance[k].by_termination, term)])

builtDocument(d) ==
  documentOf(d, aggregateDay(d, readRaw(rawFiles[d].ga),
                             readRaw(rawFiles[d].sessions),
                             readRaw(rawFiles[d].placements),
                             buildRegistryIndex(readFiRegistry(registryFile))))

Wrote(run, d) == <<run, d, "wrote">> \in log
Skipped(run, d) == <<run, d, "skip">> \in log
Present(d) == \E src \in Sources : rawFiles[d][src].st # "none"

\* C3: a second run over the same range with the same raw files and registry
\* leaves every date's document as the first run left it, and a written
\* document is the one built from the raw files alone, whatever the output
\* file held before.
C3_RebuildIsIdempotent ==
  pc = "done" =>
    /\ runs >= 2 => outFiles = firstRun
    /\ \A d \in Days : Wrote(runs, d) => outFiles[d] = FileOf(builtDocument(d))

\* the second run has rewritten a date whose file held an older document
C3_Witness ==
  /\ pc = "done" /\ runs = 2
  /\ \E d \in Days :
       /\ Wrote(1, d) /\ Wrote(2, d)
       /\ builtDocument(d) # staleDocument(d)
       /\ builtDocument(d).fi # EmptyMap

\* C4: when a run has completed, a document has been written for a date of
\* the range exactly when one of the three raw payloads of the date is
\* present, a date without payloads has been skipped, and a run never fails
\* at a date without payloads.
C4_WrittenIffSomeSourcePresent ==
  /\ pc = "done" =>
       \A i \in 1..Len(dates) :
         LET d == dates[i] IN
         /\ Wrote(runs, d) <=> Present(d)
         /\ Skipped(runs, d) <=> ~Present(d)
         /\ Wrote(runs, d) =>
              outFiles[d].st = "complete" /\ outFiles[d].v.date = d
  /\ pc = "failed" => Present(currentDay)

\* a date without payloads was skipped and a later date was still written
C4_Witness ==
  /\ pc = "done"
  /\ \E d \in Days : \E e \in Days :
       d < e /\ ~Present(d) /\ Skipped(runs, d) /\ Wrote(runs, e)

\* all three payloads of day d are present, unflagged, and hold no record
AllPresentAndEmpty(d) ==
  /\ rawFiles[d].ga = FileOf(rawPayload("ga", d, <<>>, FALSE))
  /\ rawFiles[d].sessions = FileOf(rawPayload("sessions", d, <<>>, FALSE))
  /\ rawFiles[d].placements = FileOf(rawPayload("placements", d, <<>>, FALSE))

emptyDocument(d) ==
  [date |-> d,
   sources |-> [ga |-> FALSE, sis_sessions |-> FALSE, sis_placements |-> FALSE],
   fi |-> EmptyMap,
   fi_instances |-> EmptyMap]

\* C5 as stated: a day whose three payloads are present with zero records is
\* skipped and no document is written for it.
C5_EmptyDaySkipped ==
  pc = "done" =>
    \A d \in Days : AllPresentAndEmpty(d) => Skipped(runs, d) /\ ~Wrote(runs, d)

\* C5 (amended): a day whose three payloads are present with zero records is
\* not skipped: a document without FI entries and with all three source
\* flags false is written for it.
C5_EmptyDayWritten ==
  pc = "done" =>
    \A d \in Days :
      AllPresentAndEmpty(d) =>
        /\ Wrote(runs, d) /\ ~Skipped(runs, d)
        /\ outFiles[d] = FileOf(emptyDocument(d))

\* a completed run over a day with three empty payloads
C5_Witness ==
  /\ pc = "done"
  /\ \E d \in Days :
       /\ AllPresentAndEmpty(d)
       /\ Wrote(runs, d)
       /\ outFiles[d] = FileOf(emptyDocument(d))

\* C6: a reader of a day's output file sees no file, the complete previous
\* document or the complete new document, never a partly written one; the
\* output file itself is never partly written.
C6_ReaderNeverSeesPartial ==
  /\ \A d \in Days : outFiles[d].st # "partial"
  /\ \/ seen = NoFile
     \/ /\ seen.st = "complete"
        /\ \E d \in Days :
             /\ seen.v.date = d
             /\ \/ seen = FileOf(staleDocument(d))
                \/ seen = FileOf(builtDocument(d))

\* while the temporary file is partly written, a reader has read the complete
\* previous document of that day
C6_Witness ==
  /\ pc = "writing"
  /\ tmpFile = PartialOf(doc)
  /\ seen = FileOf(staleDocument(currentDay))
  /\ outFiles[currentDay] = seen
  /\ doc # staleDocument(currentDay)

\* the records of the payload of a source for the day being built
RecordsField(src) ==
  CASE src = "ga" -> "rows" [] src = "sessions" -> "sessions"
    [] OTHER -> "placements"
RawOf(src) == readRaw(rawFiles[currentDay][src])
RecordsOf(src) == ArrayOf(Get(RawOf(src), RecordsField(src)))
Unavailable(src) == ~Truthy(RawOf(src)) \/ Truthy(Get(RawOf(src), "error"))

\* the explicit FI key fields of a record, in the order the aggregator of
\* the source reads them
ExplicitKeyFields(src) ==
  CASE src = "ga" -> <<"fi_key", "fi_lookup_key">>
    [] src = "sessions" ->
         <<"financial_institution_lookup_key", "fi_lookup_key">>
    [] OTHER -> <<"fi_lookup_key", "financial_institution_lookup_key">>
NameFields(src) ==
  CASE src = "ga" -> {"fi_name"}
    [] src = "sessions" ->
         {"fi_name", "financial_institution", "financial_institution_name",
          "institution"}
    [] OTHER -> {"fi_name", "financial_institution", "issuer_name"}

\* the explicit FI key a record carries (JsUndef when it carries none)
ExplicitKey(src, r) ==
  LET fs == ExplicitKeyFields(src)
  IN Or(Or(Get(r, fs[1]), Get(r, fs[2])), JsUndef)

\* C7: a record that carries an explicit FI key is resolved, in each of the
\* three aggregators and for every registry, to the lower-cased explicit key.
C7_ExplicitKeyWins ==
  pc \in BuildPcs =>
    \A src \in Sources :
      ~Unavailable(src) =>
        \A i \in 1..Len(RecordsOf(src)) :
          LET r == RecordsOf(src)[i] IN
          (r.t = "obj" /\ Truthy(ExplicitKey(src, r))) =>
            agg[src].fiKeys[i]
              = JsStr(toLowerCase(toString(ExplicitKey(src, r))))

\* a record from which no FI key can be derived: no explicit key, no FI
\* name and (GA) no host under the recognised suffix
NoFiKey(src, r) ==
  /\ r.t = "obj"
  /\ ~Truthy(ExplicitKey(src, r))
  /\ \A f \in NameFields(src) : ~Truthy(Get(r, f))
  /\ src = "ga" =>
       LET host == Or(Or(Get(r, "host"), Get(r, "hostname")), JsStr(<<>>))
       IN host.t = "str" /\ ~endsWith(host.s, CARDUPDATR_SUFFIX)

HasNoFiKeyRecord(src) ==
  \E i \in 1..Len(RecordsOf(src)) : NoFiKey(src, RecordsOf(src)[i])

UNKNOWN_FI_PREFIX == UNKNOWN_FI \o SEP

\* C8: a placement record without lookup key and FI name is aggregated under
\* "unknown_fi", and the written document holds it in fi["unknown_fi"] and in
\* an fi_instances entry whose key starts with "unknown_fi__".
C8_PlacementUnknownFi ==
  (pc = "loop" /\ dayIdx > 1 /\ Wrote(runs, dates[dayIdx - 1])) =>
    LET d == dates[dayIdx - 1]
        raw == readRaw(rawFiles[d].placements)
        recs == ArrayOf(Get(raw, "placements"))
        D == outFiles[d].v
    IN (Truthy(raw) /\ ~Truthy(Get(raw, "error"))
        /\ \E i \in 1..Len(recs) : NoFiKey("placements", recs[i])) =>
         /\ Has(agg.placements.byFi, UNKNOWN_FI)
         /\ Has(D.fi, UNKNOWN_FI)
         /\ JsPositive(D.fi[UNKNOWN_FI].placements.total_placements)
         /\ \E k \in DOMAIN D.fi_instances :
              /\ startsWith(k, UNKNOWN_FI_PREFIX)
              /\ JsPositive(D.fi_instances[k].placements.total_placements)

\* a document was written for a day with a placement without FI fields
C8_Witness ==
  /\ pc = "loop" /\ dayIdx > 1 /\ Wrote(runs, dates[dayIdx - 1])
  /\ LET raw == readRaw(rawFiles[dates[dayIdx - 1]].placements)
     IN /\ Truthy(raw) /\ ~Truthy(Get(raw, "error"))
        /\ plcNoFi \in {ArrayOf(Get(raw, "placements"))[i] :
                          i \in 1..Len(ArrayOf(Get(raw, "placements")))}
  /\ Has(outFiles[dates[dayIdx - 1]].v.fi, UNKNOWN_FI)

C10_UnavailableSourceIsEmpty ==
  pc \in BuildPcs =>
    \A src \in Sources :
      Unavailable(src) =>
        /\ ~agg[src].threw
        /\ agg[src].byFi = EmptyMap
        /\ agg[src].byInstance = EmptyMap

\* a day was aggregated whose GA payload is flagged and carries a row, and
\* whose sessions payload is absent
C10_Witness ==
  /\ pc = "mkdir"
  /\ Truthy(RawOf("ga")) /\ Truthy(Get(RawOf("ga"), "error"))
  /\ RecordsOf("ga") # <<>>
  /\ ~Truthy(RawOf("sessions"))
  /\ agg.ga = AggEmpty /\ agg.sessions = AggEmpty
  /\ doc.sources.ga = FALSE

\* C11: the invocation's promise rejects exactly when a file-system call of
\* writeDailyFile has failed; no missing, flagged or malformed input makes
\* it reject.
C11_RejectsOnlyOnWriteFailure ==
  /\ pc = "failed" => rejection = "write"
  /\ rejection = "write" => pc = "failed"

\* C12: a malformed record never aborts the aggregation of its day: no
\* aggregator raises, the invocation does not reject, and the loop of each
\* available source has visited every record of the payload.
C12_MalformedRecordNeverAborts ==
  /\ pc # "failed"
  /\ \A src \in Sources : ~agg[src].threw
  /\ pc \in BuildPcs =>
       \A src \in Sources :
         ~Unavailable(src) => Len(agg[src].fiKeys) = Len(RecordsOf(src))

\* a parsed numeric field as the claim counts it: 0 unless it is finite
FiniteOrZero(v) == IF Number(v).t = "num" THEN Number(v) ELSE JsNum(0)

\* the view count and the page of a GA row, read as the row loop reads them
RowCount(r) ==
  Coalesce(Coalesce(Coalesce(Coalesce(Get(r, "active_users"),
                                      Get(r, "activeUsers")),
                             Get(r, "views")),
                    Get(r, "screenPageViews")), JsNum(0))
RowPage(r) ==
  toString(Or(Or(Or(Get(r, "page"), Get(r, "pagePath")), Get(r, "pathname")),
              JsStr(<<>>)))
PagePrefix(f) ==
  CASE f = "select_merchants" -> P_select_merchants
    [] f = "user_data_collection" -> P_user_data_collection
    [] OTHER -> P_credential_entry

\* the records of source src that its loop resolved to FI key k
RecordsOfFi(src, k) ==
  {i \in 1..Len(agg[src].fiKeys) :
     Truthy(agg[src].fiKeys[i]) /\ normalizeFiKey(agg[src].fiKeys[i]) = k}

\* what the GA rows of FI k add up to for counter f, and what the sessions
\* of FI k add up to for job field f, when a field that is not a finite
\* number counts 0
GaExpected(k, f) ==
  LET rows == {i \in RecordsOfFi("ga", k) :
                 startsWith(RowPage(RecordsOf("ga")[i]), PagePrefix(f))}
  IN JsSum(rows, [i \in rows |-> FiniteOrZero(RowCount(RecordsOf("ga")[i]))])
JobsExpected(k, f) ==
  LET ss == RecordsOfFi("sessions", k)
  IN JsSum(ss, [i \in ss |-> FiniteOrZero(Get(RecordsOf("sessions")[i], f))])

\* C13: in the built document every GA counter and every job total of an FI
\* is the sum of its records' fields, a field that is unparseable or not
\* finite counting 0.
C13_UnparseableCountsZero ==
  pc \in BuildPcs =>
    \A k \in DOMAIN doc.fi :
      /\ \A f \in GaFields : doc.fi[k].ga[f] = GaExpected(k, f)
      /\ doc.fi[k].sessions.total_jobs = JobsExpected(k, "total_jobs")
      /\ doc.fi[k].sessions.successful_jobs = JobsExpected(k, "successful_jobs")

\* the sessions block s has without_jobs = max(0, total - with_jobs)
WithoutJobsIsClampedDiff(s) ==
  /\ s.total.t = "num" /\ s.with_jobs.t = "num" /\ s.without_jobs.t = "num"
  /\ s.without_jobs.n >= 0
  /\ s.without_jobs.n = IF s.total.n - s.with_jobs.n > 0
                        THEN s.total.n - s.with_jobs.n ELSE 0

\* C14: in the built document, sessions.without_jobs of every fi entry and
\* of every fi_instances entry is max(0, total - with_jobs), never negative.
C14_WithoutJobsNeverNegative ==
  pc \in BuildPcs =>
    /\ \A k \in DOMAIN doc.fi : WithoutJobsIsClampedDiff(doc.fi[k].sessions)
    /\ \A i \in DOMAIN doc.fi_instances :
         WithoutJobsIsClampedDiff(doc.fi_instances[i].sessions)

\* an FI with two sessions of which one had jobs: without_jobs is 1 in the
\* FI entry and in the entry of the instance whose session had no job
C14_Witness ==
  /\ pc \in BuildPcs
  /\ \E k \in DOMAIN doc.fi :
       /\ doc.fi[k].sessions.total = JsNum(2)
       /\ doc.fi[k].sessions.with_jobs = JsNum(1)
       /\ doc.fi[k].sessions.without_jobs = JsNum(1)
  /\ \E i \in DOMAIN doc.fi_instances :
       /\ doc.fi_instances[i].sessions.total = JsNum(1)
       /\ doc.fi_instances[i].sessions.without_jobs = JsNum(1)

\* the instance of a record, read as the loop of its source reads it
RecordInstance(src, r) ==
  CASE src = "ga" ->
         Or(Or(Or(Get(r, "instance"), Get(r, "host_instance")),
               HostInstance(resolveFiFromHost(
                 Or(Or(Get(r, "host"), Get(r, "hostname")), JsStr(<<>>))))),
            JsStr(UNKNOWN_INSTANCE))
    [] src = "sessions" ->
         Or(Or(Or(Or(Or(Get(r, "_instance"), Get(r, "instance")),
                     Get(r, "instance_name")), Get(r, "org_name")),
               Get(r, "instance_slug")), JsStr(UNKNOWN_INSTANCE))
    [] OTHER ->
         Or(Or(Or(Or(Get(r, "_instance"), Get(r, "instance")),
                  Get(r, "instance_name")), Get(r, "org_name")),
            JsStr(UNKNOWN_INSTANCE))

\* the FI-instance keys that record r of source src is aggregated into: the
\* key of the bucket that one iteration of the loop creates for it, none
\* for a record the loop drops
RecordKeys(src, r) ==
  CASE src = "ga" -> DOMAIN gaRowStep(r, EmptyMap, registryIndex).m
    [] src = "sessions" -> DOMAIN sessionStep(r, EmptyMap, registryIndex).m
    [] OTHER -> DOMAIN placementStep(r, EmptyMap, registryIndex).m

\* a record of an available source that went into entry i comes from an
\* instance whose canonical name is on the allowlist
HasTestRecord(i) ==
  \E src \in Sources :
    /\ ~Unavailable(src)
    /\ \E j \in 1..Len(RecordsOf(src)) :
         /\ i \in RecordKeys(src, RecordsOf(src)[j])
         /\ testCanonicalInstance(RecordInstance(src, RecordsOf(src)[j]))
              \in TEST_INSTANCE_SET

SourceFlag(D, src) ==
  CASE src = "ga" -> D.sources.ga
    [] src = "sessions" -> D.sources.sis_sessions
    [] OTHER -> D.sources.sis_placements

\* an FI received data from source src: the payload is available and one of
\* its records was aggregated
SourceHasData(src) ==
  /\ ~Unavailable(src)
  /\ \E j \in 1..Len(RecordsOf(src)) : RecordKeys(src, RecordsOf(src)[j]) # {}

\* C16: in the built document the flag of a source is true exactly when an
\* FI received data from that source; the flag of an absent or flagged
\* source is false, and a day with a present payload is never skipped.
C16_SourceFlagIffData ==
  /\ pc \in BuildPcs =>
       \A src \in Sources :
         /\ SourceFlag(doc, src) <=> SourceHasData(src)
         /\ Unavailable(src) => ~SourceFlag(doc, src)
  /\ \A d \in Days : Present(d) => ~Skipped(runs, d)

\* a document built for a day whose GA payload is flagged with an error,
\* whose placements payload is absent and whose sessions payload has data
C16_Witness ==
  /\ pc \in BuildPcs
  /\ Truthy(RawOf("ga")) /\ Truthy(Get(RawOf("ga"), "error"))
  /\ RecordsOf("ga") # <<>>
  /\ ~Truthy(RawOf("placements"))
  /\ doc.sources = [ga |-> FALSE, sis_sessions |-> TRUE,
                    sis_placements |-> FALSE]

\* the characters that canonicalInstance keeps
AlnumSet == LowerSet \cup DigitSet

\* C17: canonicalInstance returns, for every value, a non-empty string of
\* characters a-z and 0-9 ("unknown" for a falsy or empty value), and
\* applied to its own result it returns that result.
C17_CanonicalInstanceIdempotent ==
  call.fn = "canonicalInstance" =>
    /\ \A i \in 1..Len(ret) :
         /\ ret[i].s # <<>>
         /\ \A j \in 1..Len(ret[i].s) : ret[i].s[j] \in AlnumSet
    /\ ret # <<>> /\ (~Truthy(call.args[1]) \/ call.args[1] = JsStr(<<>>))
         => ret[1].s = UNKNOWN_INSTANCE
    /\ Len(ret) = 2 => ret[2] = ret[1]

\* canonicalInstance has been applied twice to a string with an upper-case
\* letter, a blank and a hyphen
C17_Witness ==
  /\ call = [fn |-> "canonicalInstance",
             args |-> <<JsStr(<<"B", " ", "-">>)>>]
  /\ ret = <<JsStr(<<"b">>), JsStr(<<"b">>)>>

\* C18: for all arguments, makeFiInstanceKey(fi, instance) is
\* normalizeFiKey(fi), "__" and canonicalInstance(instance), so that FI
\* values differing in letter case or surrounding blanks give one key.
C18_KeyIsNormalizedFiAndInstance ==
  call.fn = "makeFiInstanceKey" /\ ret # <<>> =>
    ret[1].s = normalizeFiKey(call.args[1]) \o SEP
                 \o canonicalInstance(call.args[2])

\* the index that ApplyResolveFiKey resolves against
KeyRegistryIndex == buildRegistryIndex(readFiRegistry(registryFile))

\* C19: resolveFiKey without a preferred key and with a fallback name that
\* the byName index does not hold returns null.
C19_UnresolvedNameIsNull ==
  /\ call.fn = "resolveFiKey" /\ ret # <<>>
  /\ ~Truthy(call.args[1])
  /\ \/ ~Truthy(call.args[2])
     \/ ~Has(KeyRegistryIndex.byName, toLowerCase(toString(call.args[2])))
  => ret[1] = JsNull

\* the day at position j of the range has been processed by the current
\* invocation: skipped, or its document renamed into place
DayCompleted(j) ==
  \/ <<runs, dates[j], "skip">> \in log
  \/ /\ <<runs, dates[j], "wrote">> \in log
     /\ outFiles[dates[j]].st = "complete"
     /\ outFiles[dates[j]].v.date = dates[j]

\* the current invocation has not touched the day at position j
DayUntouched(j) ==
  \A outcome \in {"skip", "wrote"} : <<runs, dates[j], outcome>> \notin log

\* C20: the dates of the range are processed one after another in ascending
\* order: when the loop is about to read the raw payloads of a date, the
\* documents of all earlier dates of the range have been written to their
\* temporary file and renamed, no temporary file is left, and no later date
\* has been processed.
C20_DaysInOrderOneAtATime ==
  /\ \A j \in 1..(Len(dates) - 1) : dates[j] < dates[j + 1]
  /\ \A j \in 1..Len(dates) :
       /\ j < dayIdx => DayCompleted(j)
       /\ j >= dayIdx => DayUntouched(j)
  /\ pc = "loop" => tmpFile = NoFile
  /\ tmpFile # NoFile => tmpFile.v.date = currentDay

\* the loop is about to read the raw files of the second date of the range
\* after the document of the first date has been renamed into place
C20_Witness ==
  /\ pc = "loop" /\ dayIdx = 2 /\ Len(dates) >= 2
  /\ <<runs, dates[1], "wrote">> \in log
  /\ outFiles[dates[1]].st = "complete"
  /\ firstRun[dates[1]] # outFiles[dates[1]]
  /\ \E source \in Sources : rawFiles[dates[2]][source] # NoFile

\* the index that a read of fi_registry.json would give now
freshRegistryIndex == buildRegistryIndex(readFiRegistry(registryFile))

\* the document of the current day as aggregated with the index given
currentDocument(index) ==
  documentOf(currentDay,
             aggregateDay(currentDay, gaRaw, sessionsRaw, placementsRaw, index))

\* C21: an invocation reads the registry file once, before the first date:
\* the index is built from the file as it is when the invocation starts, it
\* stays the same until the invocation ends whatever happens to the file,
\* and the document of every date is aggregated with it.
C21_RegistryReadOncePerRun ==
  [][/\ pc = "idle" /\ pc' # "idle" => registryIndex' = freshRegistryIndex
     /\ pc # "idle" => registryIndex' = registryIndex
     /\ pc = "loop" /\ pc' = "mkdir" => doc' = currentDocument(registryIndex)
     /\ pc = "rename" /\ pc' = "loop" =>
          outFiles'[currentDay] = FileOf(currentDocument(registryIndex))]_vars

\* the registry file was replaced after the first date was written, and the
\* document of the second date is the one of the index built at the start,
\* not the one that the file's present content would give
C21_Witness ==
  /\ pc \in BuildPcs /\ dayIdx = 2
  /\ <<runs, dates[1], "wrote">> \in log
  /\ registryIndex # freshRegistryIndex
  /\ doc = currentDocument(registryIndex)
  /\ doc # currentDocument(freshRegistryIndex)

\* the records of the legacy default/advancial-prod combination
LegacyRecords ==
  {gaLegacy, sessLegacyA, sessLegacyB, plcLegacyA, plcLegacyB}

\* the FI-instance key of the legacy combination
LegacyKey == S_advancial_prod \o SEP \o S_advancialprod

\* the positions of the legacy records in the payload of source src
LegacyIn(src) ==
  {j \in 1..Len(RecordsOf(src)) : RecordsOf(src)[j] \in LegacyRecords}

\* the counter of the aggregator's bucket that counts the records of src
CountField(src) ==
  CASE src = "ga" -> "select_merchants"
    [] src = "sessions" -> "total_sessions"
    [] OTHER -> "total_placements"

\* what the legacy records of source src add up to in that counter
LegacyCount(src) ==
  Cardinality(LegacyIn(src)) * (IF src = "ga" THEN 4 ELSE 1)

\* C22: in every source the records of the legacy default/advancial-prod
\* combination are aggregated under FI key "advancial-prod" and FI-instance
\* key "advancial-prod__advancialprod", in the aggregator's maps and in
\* the document, and nothing is aggregated under FI key "default".
C22_LegacyCombinationCollapses ==
  pc \in BuildPcs =>
    /\ \A src \in Sources :
         /\ S_default \notin DOMAIN agg[src].byFi
         /\ \A key \in DOMAIN agg[src].byInstance :
              ~startsWith(key, S_default \o SEP)
         /\ LegacyIn(src) # {} =>
              /\ Has(agg[src].byFi, S_advancial_prod)
              /\ Has(agg[src].byInstance, LegacyKey)
              /\ agg[src].byInstance[LegacyKey][CountField(src)]
                   = JsNum(LegacyCount(src))
              /\ agg[src].byFi[S_advancial_prod][CountField(src)]
                   = JsNum(LegacyCount(src))
              /\ Has(doc.fi, S_advancial_prod)
              /\ Has(doc.fi_instances, LegacyKey)
    /\ S_default \notin DOMAIN doc.fi

\* a day with a session of each spelling of the legacy combination: one FI
\* entry and one FI-instance entry hold them both
C22_Witness ==
  /\ pc \in BuildPcs
  /\ RecordsOf("sessions") = <<sessLegacyA, sessLegacyB>>
  /\ DOMAIN doc.fi = {S_advancial_prod}
  /\ DOMAIN doc.fi_instances = {LegacyKey}
  /\ doc.fi_instances[LegacyKey].sessions.total = JsNum(2)

\* the counter that a GA row's page selects: the first of the three prefixes
\* that the page path starts with, "none" when it starts with none of them
CounterOf(r) ==
  IF startsWith(RowPage(r), P_select_merchants) THEN "select_merchants"
  ELSE IF startsWith(RowPage(r), P_user_data_collection)
  THEN "user_data_collection"
  ELSE IF startsWith(RowPage(r), P_credential_entry) THEN "credential_entry"
  ELSE "none"

\* the sum of the counts of the rows of FI k whose page selects counter f
RowsTotal(k, f) ==
  LET rows == {i \in RecordsOfFi("ga", k) : CounterOf(RecordsOf("ga")[i]) = f}
  IN JsSum(rows, [i \in rows |-> Number(RowCount(RecordsOf("ga")[i]))])

\* C23: every GA row adds its count to the one counter that its page path
\* selects (select_merchants, else user_data_collection, else
\* credential_entry, by prefix) and to no counter when the path starts with
\* none of the prefixes: each counter of an FI is the sum of the counts of
\* its rows that select it.
C23_RowCountsOneCounter ==
  pc \in BuildPcs =>
    \A k \in DOMAIN agg.ga.byFi :
      \A f \in GaFields :
        /\ agg.ga.byFi[k][f] = RowsTotal(k, f)
        /\ doc.fi[k].ga[f] = RowsTotal(k, f)

\* the day of two rows of acme.instance1, /select-merchants with 5 and
\* /credential-entry with 2
C23_Witness ==
  /\ pc \in BuildPcs
  /\ RecordsOf("ga") = <<gaSelect, gaCred>>
  /\ doc.fi[T_acme].ga = [select_merchants |-> JsNum(5),
                          user_data_collection |-> JsNum(0),
                          credential_entry |-> JsNum(2)]

\* v > 0 as JavaScript compares a field's value with a number
GreaterThanZero(v) ==
  \/ Number(v) = JsInf
  \/ Number(v).t = "num" /\ Number(v).n > 0

\* the positions of the session records aggregated into bucket i
SessionsOfKey(i) ==
  {j \in 1..Len(RecordsOf("sessions")) :
     i \in RecordKeys("sessions", RecordsOf("sessions")[j])}

\* the positions among js of the sessions whose field f is greater than 0
WithPositive(js, f) ==
  {j \in js : GreaterThanZero(Get(RecordsOf("sessions")[j], f))}

\* every session adds 1 to total_sessions of its bucket, 1 to
\* sessions_with_jobs iff its total_jobs > 0 and 1 to sessions_with_success
\* iff its successful_jobs > 0
SessionsCountedPerRecord ==
  \A i \in DOMAIN agg.sessions.byInstance :
    LET counted(bucket, js) ==
          /\ bucket.total_sessions = JsNum(Cardinality(js))
          /\ bucket.sessions_with_jobs
               = JsNum(Cardinality(WithPositive(js, "total_jobs")))
          /\ bucket.sessions_with_success
               = JsNum(Cardinality(WithPositive(js, "successful_jobs")))
    IN counted(agg.sessions.byInstance[i], SessionsOfKey(i))

\* the day's sessions payload is the single session of the scenario
SingleSessionDay ==
  /\ ~Unavailable("sessions")
  /\ RecordsOf("sessions") = <<sessAcme>>

AcmeInstance1 == T_acme \o SEP \o toLowerCase(T_Instance1)

\* C24 (as stated): sessions are counted per record as above, and the day of
\* the single session {total_jobs: 3, successful_jobs: 1, fi_lookup_key:
\* "acme", _instance: "Instance1"} gives a sessions block equal to {total: 1,
\* with_jobs: 1, with_success: 1, without_jobs: 0, total_jobs: 3,
\* successful_jobs: 1}.
C24_SessionCounts ==
  pc \in BuildPcs =>
    /\ SessionsCountedPerRecord
    /\ SingleSessionDay =>
         doc.fi_instances[AcmeInstance1].sessions
           = [total |-> JsNum(1), with_jobs |-> JsNum(1),
              with_success |-> JsNum(1), without_jobs |-> JsNum(0),
              total_jobs |-> JsNum(3), successful_jobs |-> JsNum(1)]

\* C24 (amended): sessions are counted per record as above, and the day of
\* the single session gives a sessions block with the six counters of the
\* scenario and, besides them, an empty job_distribution map.
C24_SessionCountsAndDistribution ==
  pc \in BuildPcs =>
    /\ SessionsCountedPerRecord
    /\ SingleSessionDay =>
         doc.fi_instances[AcmeInstance1].sessions
           = [total |-> JsNum(1), with_jobs |-> JsNum(1),
              with_success |-> JsNum(1), without_jobs |-> JsNum(0),
              total_jobs |-> JsNum(3), successful_jobs |-> JsNum(1),
              job_distribution |-> EmptyMap]

\* the document of the day of the single session has been built
C24_Witness ==
  /\ pc \in BuildPcs
  /\ SingleSessionDay
  /\ Has(doc.fi_instances, AcmeInstance1)
  /\ agg.sessions.byInstance[AcmeInstance1].sessions_with_jobs = JsNum(1)

\* the termination reason of a placement record as by_termination names it
TerminationOf(r) ==
  toUpperCase(toString(Or(Or(Or(Get(r, "termination_type"),
                                Get(r, "termination")), Get(r, "status")),
                          JsStr(S_UNKNOWN))))

\* the by_termination counts of a placements block add up to its
\* total_placements, which is at least successful_placements
TerminationsAddUp(b) ==
  /\ JsSum(DOMAIN b.by_termination, b.by_termination) = b.total_placements
  /\ b.total_placements.t = "num" /\ b.successful_placements.t = "num"
  /\ b.successful_placements.n <= b.total_placements.n

\* the positions of the placement records aggregated into bucket i
PlacementsOfKey(i) ==
  {j \in 1..Len(RecordsOf("placements")) :
     i \in RecordKeys("placements", RecordsOf("placements")[j])}

\* C25: every placement record increments total_placements and exactly one
\* by_termination key of its bucket, its upper-cased termination reason or
\* "UNKNOWN": in every per-instance and per-FI placements bucket, of the
\* aggregator and of the document, the by_termination counts add up to
\* total_placements and successful_placements <= total_placements.
C25_TerminationsSumToTotal ==
  pc \in BuildPcs =>
    /\ \A i \in DOMAIN agg.placements.byInstance :
         LET counted(b, js) ==
               /\ TerminationsAddUp(b)
               /\ b.total_placements = JsNum(Cardinality(js))
               /\ DOMAIN b.by_termination
                    = {TerminationOf(RecordsOf("placements")[j]) : j \in js}
               /\ \A j \in js :
                    b.by_termination[TerminationOf(RecordsOf("placements")[j])]
                      = JsNum(Cardinality(
                          {h \in js :
                             TerminationOf(RecordsOf("placements")[h])
                               = TerminationOf(RecordsOf("placements")[j])}))
         IN counted(agg.placements.byInstance[i], PlacementsOfKey(i))
    /\ \A k \in DOMAIN agg.placements.byFi :
         TerminationsAddUp(agg.placements.byFi[k])
    /\ \A k \in DOMAIN doc.fi : TerminationsAddUp(doc.fi[k].placements)
    /\ \A i \in DOMAIN doc.fi_instances :
         TerminationsAddUp(doc.fi_instances[i].placements)

\* an FI with a successful placement and one without termination reason,
\* which is counted under UNKNOWN
C25_Witness ==
  /\ pc \in BuildPcs
  /\ \E k \in DOMAIN doc.fi :
       /\ doc.fi[k].placements.total_placements = JsNum(2)
       /\ doc.fi[k].placements.successful_placements = JsNum(1)
       /\ doc.fi[k].placements.by_termination
            = [term \in {S_UNKNOWN, S_SUCCESSFUL} |-> JsNum(1)]

\* the blocks of an entry for a source that has no bucket for its key
ZeroGa ==
  [select_merchants |-> JsNum(0), user_data_collection |-> JsNum(0),
   credential_entry |-> JsNum(0)]
ZeroSessions ==
  [total |-> JsNum(0), with_jobs |-> JsNum(0), with_success |-> JsNum(0),
   without_jobs |-> JsNum(0), total_jobs |-> JsNum(0),
   successful_jobs |-> JsNum(0), job_distribution |-> EmptyMap]
ZeroPlacements ==
  [total_placements |-> JsNum(0), successful_placements |-> JsNum(0),
   by_termination |-> EmptyMap]

\* the keys of the three aggregators' maps named by field ("byFi" or
\* "byInstance")
KeysOfAll(field) == UNION {DOMAIN agg[src][field] : src \in Sources}

\* entry e of the document, under key k, is zero-filled for every source
\* whose map m[src] has no bucket for k
ZeroFilled(e, k, field) ==
  /\ ~Has(agg.ga[field], k) => e.ga = ZeroGa
  /\ ~Has(agg.sessions[field], k) => e.sessions = ZeroSessions
  /\ ~Has(agg.placements[field], k) => e.placements = ZeroPlacements

\* C26: the keys of the document's fi map are exactly the keys of the three
\* byFi maps together, the keys of fi_instances exactly those of the three
\* byInstance maps together, and an entry carries all-zero counters for a
\* source whose map lacks its key.
C26_KeysAreUnionZeroFilled ==
  pc \in BuildPcs =>
    /\ DOMAIN doc.fi = KeysOfAll("byFi")
    /\ DOMAIN doc.fi_instances = KeysOfAll("byInstance")
    /\ \A k \in DOMAIN doc.fi : ZeroFilled(doc.fi[k], k, "byFi")
    /\ \A i \in DOMAIN doc.fi_instances :
         ZeroFilled(doc.fi_instances[i], i, "byInstance")

\* a document with an FI that only the placements payload names beside an FI
\* that only the GA payload names
C26_Witness ==
  /\ pc \in BuildPcs
  /\ \E k \in DOMAIN doc.fi :
       /\ Has(agg.placements.byFi, k)
       /\ ~Has(agg.ga.byFi, k) /\ ~Has(agg.sessions.byFi, k)
       /\ doc.fi[k].placements.total_placements = JsNum(1)
  /\ \E k \in DOMAIN doc.fi :
       /\ Has(agg.ga.byFi, k)
       /\ ~Has(agg.placements.byFi, k) /\ ~Has(agg.sessions.byFi, k)
       /\ doc.fi[k].ga # ZeroGa

\* the number of entries of the payload of source src that are objects
ObjectRecords(src) ==
  Cardinality({j \in 1..Len(RecordsOf(src)) : IsObject(RecordsOf(src)[j])})

\* the counters of the buckets of map m add up to the number of the
\* source's object-valued records
AllCounted(src, m) ==
  JsSum(DOMAIN m, [k \in DOMAIN m |-> m[k][CountField(src)]])
    = JsNum(ObjectRecords(src))

\* C27: the sessions and the placements aggregator neither drop nor count
\* twice a record: for a payload without error flag the total_sessions
\* (total_placements) of all byInstance buckets, and of all byFi buckets,
\* add up to the number of object-valued records of the payload, records of
\* test instances included.
C27_EveryRecordCountedOnce ==
  pc \in BuildPcs =>
    \A src \in {"sessions", "placements"} :
      ~Unavailable(src) =>
        /\ AllCounted(src, agg[src].byInstance)
        /\ AllCounted(src, agg[src].byFi)

\* a sessions payload with a session of a test instance, and an entry that
\* is no object, of which only the session is counted
C27_Witness ==
  /\ pc \in BuildPcs
  /\ RecordsOf("sessions") = <<JsNull, sessTest>>
  /\ DOMAIN agg.sessions.byInstance
       = {T_acme \o SEP \o stripNonAlnum(S_customer_dev)}
  /\ agg.sessions.byFi[T_acme].total_sessions = JsNum(1)

\* the counters of the buckets of source src
CounterFields(src) ==
  CASE src = "ga" -> GaFields
    [] src = "sessions" ->
         {"total_sessions", "sessions_with_jobs", "sessions_with_success",
          "total_jobs_sum", "successful_jobs_sum"}
    [] OTHER -> {"total_placements", "successful_placements", "by_termination"}

\* the keys of map m of source src with the counters of their buckets
Counters(src, m) ==
  [k \in DOMAIN m |-> [f \in CounterFields(src) |-> m[k][f]]]

\* the result of the aggregator of source src for the day's payload with
\* its records replaced by records
aggregateRecords(src, records) ==
  CASE src = "ga" ->
         aggregateGaFromRaw(currentDay,
                            rawPayload(src, currentDay, records, FALSE),
                            registryIndex)
    [] src = "sessions" ->
         aggregateSessionsFromRaw(rawPayload(src, currentDay, records, FALSE),
                                  registryIndex)
    [] OTHER ->
         aggregatePlacementsFromRaw(rawPayload(src, currentDay, records, FALSE),
                                    registryIndex)

\* the records of the payload of source src in every order
Reorderings(src) ==
  {[j \in 1..Len(RecordsOf(src)) |-> RecordsOf(src)[p[j]]] :
     p \in Permutations(1..Len(RecordsOf(src)))}

\* the aggregator's result r has the keys and the counters of agg[src]
SameKeysAndCounters(src, r) ==
  /\ ~r.threw
  /\ Counters(src, r.byFi) = Counters(src, agg[src].byFi)
  /\ Counters(src, r.byInstance) = Counters(src, agg[src].byInstance)

\* C28: for each aggregator the keys of byFi and of byInstance and every
\* counter in them are the same for every order of the records of the
\* payload.
C28_OrderOfRecordsIrrelevant ==
  pc \in BuildPcs =>
    \A src \in Sources :
      ~Unavailable(src) =>
        \A records \in Reorderings(src) :
          SameKeysAndCounters(src, aggregateRecords(src, records))

\* C29: the canonical form of an instance value does not depend on display
\* formatting: canonicalInstance of formatInstanceDisplay(x) is
\* canonicalInstance(x) for every value x, values that the override table
\* renames and values of blanks, underscores or punctuation only included.
C29_DisplayKeepsCanonicalForm ==
  call.fn = "formatInstanceDisplay" /\ Len(ret) = 2 =>
    ret[2].s = canonicalInstance(call.args[1])

\* the display name that the override table gives to "DIGITALONBOARDING "
\* has the canonical form of the value
C29_Witness ==
  /\ call.fn = "formatInstanceDisplay"
  /\ call.args[1] = JsStr(toUpperCase(S_digitalonboarding) \o <<" ">>)
  /\ ret = <<JsStr(S_digital_onboarding), JsStr(S_digitalonboarding)>>

\* some invocation so far has skipped day d
EverSkipped(d) == \E run \in 1..runs : Skipped(run, d)

\* C30: a date that an invocation skips because its three raw payloads are
\* absent keeps what the output directory held for it: no file if there was
\* none, and otherwise the document of the earlier build with its content,
\* neither removed nor rewritten nor replaced by a temporary file.
C30_SkippedDateKeepsDocument ==
  \A d \in Days :
    EverSkipped(d) =>
      /\ outFiles[d] = firstRun[d]
      /\ \/ outFiles[d] = NoFile
         \/ outFiles[d] = FileOf(staleDocument(d))
      /\ tmpFile # NoFile => tmpFile.v.date # d

\* a completed run skipped a date that still has its earlier document and
\* wrote another date
C30_Witness ==
  /\ pc = "done"
  /\ \E d \in Days : \E e \in Days :
       /\ Skipped(runs, d) /\ outFiles[d] = FileOf(staleDocument(d))
       /\ Wrote(runs, e)

====
